---- MODULE Spec2Model ----
(***************************************************************************)
(* turbo-payments: the Payment aggregate's state machine, the payment      *)
(* repository, the user-service client and the ProcessPayment and          *)
(* RefundPayment use cases, as a state machine.                            *)
(*                                                                         *)
(* Ten specifications share the variables:                                 *)
(*   Spec         concurrent ProcessPayment / RefundPayment invocations    *)
(*                against one payment store and one account service;       *)
(*   SpecPayment  one Payment object driven through arbitrary sequences of *)
(*                process(), complete(), fail(reason), refund();           *)
(*   SpecSend     SendPayment and the two read use cases on one handler,   *)
(*                ProcessPayment / RefundPayment on the other;             *)
(*   SpecFault    ProcessPayment / RefundPayment on one handler against a  *)
(*                storage backend that may reject an update;               *)
(*   SpecFaultFair  SpecFault with every pending call returning;           *)
(*   SpecCrash    SpecFault with a service process that may die at an      *)
(*                await and be restarted;                                  *)
(*   SpecSame     ProcessPayment racing on two payments of one sender      *)
(*                whose balance does not cover both;                       *)
(*   SpecAuth     the five routes of PaymentController under the tokens of *)
(*                three users;                                             *)
(*   SpecRead     GetPaymentById and GetUserPaymentHistory reading stores  *)
(*                of up to three payments;                                 *)
(*   SpecValue    Amount.create, Currency.create, TransactionId.generate / *)
(*                create, Payment.createNew and PaymentExceptionFilter     *)
(*                applied to inputs drawn from bounded sets.               *)
(*                                                                         *)
(* Every await of the use cases is a scheduling point: an action is the    *)
(* remote call's effect together with the synchronous code that runs when  *)
(* it returns, up to the next await.                                       *)
(***************************************************************************)
EXTENDS Integers, Sequences, FiniteSets, TLC

\* ------------------------------------------------------------------ bounds
\* Stand-in for Amount's maximum of 999999999 cents (amount.ts:27), scaled
\* down so that balances around the maximum are explored.
MaxAmountCents == 2
\* Largest amountCents of a payment saved in the store.
MaxPaymentCents == 1
\* Largest value of the wall clock read by new Date() (SpecPayment).
MaxClock == 2
\* Longest failure reason handed to fail(reason).
MaxReasonLen == 2
\* Stand-in for the longest description createNew accepts, 255 characters
\* (payment.entity.ts:64), scaled down so that longer ones are explored.
MaxDescriptionLen == 1
\* Longest currency code handed to Currency.create.
MaxCodeLen == 4
\* Most blanks before, and after, a transaction id handed to TransactionId.create.
MaxIdPad == 1

\* -------------------------------------------------------------- constants
\* The largest Amount, in cents (amount.ts:27).
AmountMaximum == 999999999
\* The length of a currency code (payments.filter.ts:254).
CurrencyCodeLen == 3
\* Longest transaction id TransactionId.create takes (transactionId.ts:41).
TransactionIdMaxLen == 50

\* ------------------------------------------------------------- vocabulary
Users == {"alice", "bob"}
Procs == {"h1", "h2"}
\* The transaction id of the payment in the store, and an id never saved.
PayIds == {"PAY_1"}
UnknownId == "PAY_x"
\* What TransactionId.generate() can return: an id not used so far, or (a
\* collision of two random UUIDs) the id of a saved payment.
GeneratedIds == PayIds \cup {"PAY_2"}
\* A user id that is no account of the account service.
NoAccountId == "carol"
\* User ids with blanks around them, and String.prototype.trim on a user id.
PaddedIds == {" alice", "alice ", " bob "}
\* User ids that are empty once trimmed.
BlankIds == {"", " "}
trimId(s) ==
  IF s \in {" alice", "alice "} THEN "alice"
  ELSE IF s = " bob " THEN "bob"
  ELSE IF s = " " THEN ""
  ELSE s
\* processedAt: null
Null == 0
\* getUserById: null (404), and "no lookup made yet"
NotFound == -1
Unread == -2

\* PaymentStatus (payment.entity.ts:10-16)
PaymentStatus == {"PENDING", "PROCESSING", "COMPLETED", "FAILED", "REFUNDED"}

\* Characters of a failure reason: a blank and a non-blank one.
Chars == {" ", "x"}
RECURSIVE SeqsUpTo(_)
SeqsUpTo(n) ==
  IF n = 0 THEN {<<>>}
  ELSE LET S == SeqsUpTo(n - 1)
       IN S \cup {Append(s, c) : s \in {t \in S : Len(t) = n - 1}, c \in Chars}
Reasons == SeqsUpTo(MaxReasonLen)

\* String.prototype.trim: drop leading and trailing blanks.
RECURSIVE TrimLeft(_)
TrimLeft(s) ==
  IF s = <<>> THEN s
  ELSE IF Head(s) = " " THEN TrimLeft(Tail(s)) ELSE s
RECURSIVE TrimRight(_)
TrimRight(s) ==
  IF s = <<>> THEN s
  ELSE IF s[Len(s)] = " " THEN TrimRight(SubSeq(s, 1, Len(s) - 1)) ELSE s
Trim(s) == TrimRight(TrimLeft(s))

\* The reasons the use cases pass to fail(): all non-blank literals.
ReasonText == <<"x">>

\* Descriptions of a payment: up to one character more than createNew takes.
Descriptions == SeqsUpTo(MaxDescriptionLen + 1)

\* String.prototype.toUpperCase, character by character.
toUpperCase(s) ==
  [i \in 1..Len(s) |->
     IF s[i] = "u" THEN "U"
     ELSE IF s[i] = "s" THEN "S"
     ELSE IF s[i] = "d" THEN "D"
     ELSE IF s[i] = "e" THEN "E"
     ELSE IF s[i] = "r" THEN "R"
     ELSE s[i]]

\* SpecValue: no function picked, and no result yet.
NoArg == [fn |-> "none"]
NoRet == [fn |-> "none"]

VARIABLES
  db,        \* payment store: transaction id -> persisted payment document
  userDb,    \* account service: user id -> balance in cents, NotFound if deleted
  clock,     \* wall clock, the value of new Date()
  pc,        \* per request handler: the await it is suspended at
  inv,       \* per request handler: the locals of the running invocation
  moved,     \* history: per payment, forward transfers the account service applied
  okReplies, \* history: per payment, successful transferBalance responses
  reversed,  \* history: per payment, reverse transfers applied for refunds
  overlap,   \* history: per payment, two ProcessPayment invocations overlapped
  ent,       \* SpecPayment: the Payment object under test
  entLast,   \* SpecPayment: the last transition attempted on it
  arg,       \* SpecValue: the function applied and its input
  ret        \* SpecValue: what the function returned, NoRet before the call

vars == <<db, userDb, clock, pc, inv, moved, okReplies, reversed, overlap, ent, entLast, arg, ret>>

\* ------------------------------------------------- Payment (domain entity)
\* A transition returns [ok, pay]: ok = FALSE is the thrown Error, and pay is
\* the object afterwards.

\* process() without its status guard.
process_unguarded(pay) ==
  [ok |-> TRUE, pay |-> [pay EXCEPT !.status = "PROCESSING"]]

\* process() that also takes a FAILED payment back to PROCESSING.
process_retriesFailed(pay) ==
  IF pay.status \notin {"PENDING", "FAILED"}
  THEN [ok |-> FALSE, pay |-> pay]
  ELSE [ok |-> TRUE, pay |-> [pay EXCEPT !.status = "PROCESSING", !.processedAt = Null]]

\* Payment.process
process(pay) ==
  IF pay.status # "PENDING"
  THEN [ok |-> FALSE, pay |-> pay]
  ELSE [ok |-> TRUE, pay |-> [pay EXCEPT !.status = "PROCESSING"]]

\* complete() with the guard of fail(): anything but COMPLETED and REFUNDED.
complete_looseGuard(pay, now) ==
  IF pay.status = "COMPLETED" \/ pay.status = "REFUNDED"
  THEN [ok |-> FALSE, pay |-> pay]
  ELSE [ok |-> TRUE,
        pay |-> [pay EXCEPT !.status = "COMPLETED", !.processedAt = now]]

\* complete() that sets the status but forgets processedAt.
complete_noStamp(pay, now) ==
  IF pay.status # "PROCESSING"
  THEN [ok |-> FALSE, pay |-> pay]
  ELSE [ok |-> TRUE, pay |-> [pay EXCEPT !.status = "COMPLETED"]]

\* Payment.complete
complete(pay, now) ==
  IF pay.status # "PROCESSING"
  THEN [ok |-> FALSE, pay |-> pay]
  ELSE [ok |-> TRUE,
        pay |-> [pay EXCEPT !.status = "COMPLETED", !.processedAt = now]]

\* fail() testing the reason without trimming it.
fail_untrimmed(pay, reason, now) ==
  IF pay.status = "COMPLETED" \/ pay.status = "REFUNDED"
  THEN [ok |-> FALSE, pay |-> pay]
  ELSE IF reason = <<>>
  THEN [ok |-> FALSE, pay |-> pay]
  ELSE [ok |-> TRUE,
        pay |-> [pay EXCEPT !.status = "FAILED", !.processedAt = now]]

\* fail() that stamps processedAt but forgets the status.
fail_keepsStatus(pay, reason, now) ==
  IF pay.status = "COMPLETED" \/ pay.status = "REFUNDED"
  THEN [ok |-> FALSE, pay |-> pay]
  ELSE IF reason = <<>> \/ Len(Trim(reason)) = 0
  THEN [ok |-> FALSE, pay |-> pay]
  ELSE [ok |-> TRUE, pay |-> [pay EXCEPT !.processedAt = now]]

\* fail() that sets the status but forgets processedAt.
fail_noStamp(pay, reason, now) ==
  IF pay.status = "COMPLETED" \/ pay.status = "REFUNDED"
  THEN [ok |-> FALSE, pay |-> pay]
  ELSE IF reason = <<>> \/ Len(Trim(reason)) = 0
  THEN [ok |-> FALSE, pay |-> pay]
  ELSE [ok |-> TRUE, pay |-> [pay EXCEPT !.status = "FAILED"]]

\* Payment.fail
fail(pay, reason, now) ==
  IF pay.status = "COMPLETED" \/ pay.status = "REFUNDED"
  THEN [ok |-> FALSE, pay |-> pay]
  ELSE IF reason = <<>> \/ Len(Trim(reason)) = 0
  THEN [ok |-> FALSE, pay |-> pay]
  ELSE [ok |-> TRUE,
        pay |-> [pay EXCEPT !.status = "FAILED", !.processedAt = now]]

\* refund() that checks the status but does not change it.
refund_keepsStatus(pay) ==
  IF pay.status # "COMPLETED"
  THEN [ok |-> FALSE, pay |-> pay]
  ELSE [ok |-> TRUE, pay |-> pay]

\* refund() without its status guard.
refund_unguarded(pay) ==
  [ok |-> TRUE, pay |-> [pay EXCEPT !.status = "REFUNDED"]]

\* Payment.refund
refund(pay) ==
  IF pay.status # "COMPLETED"
  THEN [ok |-> FALSE, pay |-> pay]
  ELSE [ok |-> TRUE, pay |-> [pay EXCEPT !.status = "REFUNDED"]]

\* "No payment": the null of findById, and the locals before a payment is
\* loaded.
NoPay ==
  [id |-> "", fromUserId |-> "", toUserId |-> "", amountCents |-> 0,
   currencyCode |-> <<>>, status |-> "NONE", description |-> <<>>,
   createdAt |-> Null, processedAt |-> Null]

\* The payment SendPayment saved before the use cases under study start.
SavedPayment(id, amountCents) ==
  [id |-> id, fromUserId |-> "alice", toUserId |-> "bob",
   amountCents |-> amountCents, currencyCode |-> <<"U", "S", "D">>,
   status |-> "PENDING", description |-> <<"x">>,
   createdAt |-> 1, processedAt |-> Null]

\* --------------------------------------------------- Amount (value object)
\* A JavaScript number that may not be whole is given in halves: h stands
\* for h / 2, so an odd h is a non-integer.  Number.isInteger:
isInteger(h) == h % 2 = 0

\* Amount.create with an exclusive upper limit.
Amount_create_exclusive(max, h) ==
  IF ~isInteger(h) THEN [ok |-> FALSE, valueCents |-> 0]
  ELSE IF h \div 2 < 0 THEN [ok |-> FALSE, valueCents |-> 0]
  ELSE IF h \div 2 >= max THEN [ok |-> FALSE, valueCents |-> 0]
  ELSE [ok |-> TRUE, valueCents |-> h \div 2]

\* Amount.create of the number h / 2, with `max` the largest amount:
\* [ok, valueCents]; ok = FALSE is the thrown Error.
Amount_create(max, h) ==
  IF ~isInteger(h) THEN [ok |-> FALSE, valueCents |-> 0]
  ELSE IF h \div 2 < 0 THEN [ok |-> FALSE, valueCents |-> 0]
  ELSE IF h \div 2 > max THEN [ok |-> FALSE, valueCents |-> 0]
  ELSE [ok |-> TRUE, valueCents |-> h \div 2]

\* Amount.create of a whole number of cents (a balance, a payment amount),
\* where MaxAmountCents stands for the maximum.
AmountCreate(cents) == Amount_create(MaxAmountCents, 2 * cents)

\* Amount.toFormattedString: "$" + (cents / 100).toFixed(2), as the pair
\* <<whole units, two-digit remainder>>.
toFormattedString(cents) == <<cents \div 100, cents % 100>>

\* ------------------------------------------------- Currency (value object)
\* Currency.SUPPORTED_CURRENCIES
SUPPORTED_CURRENCIES ==
  {<<"U", "S", "D">>, <<"E", "U", "R">>, <<"C", "N", "Y">>}

\* Currency.create that upper-cases the code as given, blanks included.
CurrencyCreate_untrimmed(code) ==
  LET normalizedCode == toUpperCase(code)
  IN IF code = <<>> THEN [ok |-> FALSE, code |-> <<>>]
     ELSE IF Len(normalizedCode) # CurrencyCodeLen
     THEN [ok |-> FALSE, code |-> <<>>]
     ELSE IF normalizedCode \notin SUPPORTED_CURRENCIES
     THEN [ok |-> FALSE, code |-> <<>>]
     ELSE [ok |-> TRUE, code |-> normalizedCode]

\* Currency.create: [ok, code]; the code is trimmed and upper-cased, must be
\* three characters long and one of the supported ones.
CurrencyCreate(code) ==
  LET normalizedCode == toUpperCase(Trim(code))
  IN IF code = <<>> THEN [ok |-> FALSE, code |-> <<>>]
     ELSE IF Len(normalizedCode) # CurrencyCodeLen
     THEN [ok |-> FALSE, code |-> <<>>]
     ELSE IF normalizedCode \notin SUPPORTED_CURRENCIES
     THEN [ok |-> FALSE, code |-> <<>>]
     ELSE [ok |-> TRUE, code |-> normalizedCode]

\* ------------------------------------------- TransactionId (value object)
\* crypto.randomUUID(): 36 characters, hexadecimal digits in groups of
\* 8-4-4-4-12 joined by dashes; two of the values it can return.
randomUUID ==
  {[i \in 1..36 |-> IF i \in {9, 14, 19, 24} THEN "-" ELSE h] : h \in {"0", "f"}}

\* TransactionId.generate: PAY_ followed by the UUID drawn.
generate(uuid) == <<"P", "A", "Y", "_">> \o uuid

\* TransactionId.create that validates and keeps the value as given.
TransactionId_create_untrimmed(value) ==
  IF value = <<>> THEN [ok |-> FALSE, value |-> <<>>]
  ELSE IF Len(value) = 0 THEN [ok |-> FALSE, value |-> <<>>]
  ELSE IF Len(value) > TransactionIdMaxLen THEN [ok |-> FALSE, value |-> <<>>]
  ELSE [ok |-> TRUE, value |-> value]

\* TransactionId.create: [ok, value]; the empty string is rejected, then the
\* value is trimmed and must be 1 to 50 characters long.
TransactionId_create(value) ==
  LET trimmedValue == Trim(value)
  IN IF value = <<>> THEN [ok |-> FALSE, value |-> <<>>]
     ELSE IF Len(trimmedValue) = 0 THEN [ok |-> FALSE, value |-> <<>>]
     ELSE IF Len(trimmedValue) > TransactionIdMaxLen
     THEN [ok |-> FALSE, value |-> <<>>]
     ELSE [ok |-> TRUE, value |-> trimmedValue]

\* ----------------------------------------------------- Payment.createNew
\* The Payment that new Payment(...) builds at the end of createNew.
NewPayment(fromUserId, toUserId, amountCents, currencyCode, description, id, now) ==
  [id |-> id, fromUserId |-> trimId(fromUserId), toUserId |-> trimId(toUserId),
   amountCents |-> amountCents, currencyCode |-> currencyCode,
   status |-> "PENDING", description |-> Trim(description),
   createdAt |-> now, processedAt |-> Null]

\* createNew comparing the ids as given, without trimming them.
createNew_untrimmed(fromUserId, toUserId, amountCents, currencyCode, description, id, now) ==
  IF fromUserId = toUserId
  THEN [ok |-> FALSE, error |-> "SelfPayment", pay |-> NoPay]
  ELSE IF amountCents = 0
  THEN [ok |-> FALSE, error |-> "ZeroAmount", pay |-> NoPay]
  ELSE IF Len(description) > MaxDescriptionLen
  THEN [ok |-> FALSE, error |-> "DescriptionTooLong", pay |-> NoPay]
  ELSE [ok |-> TRUE, error |-> "none",
        pay |-> NewPayment(fromUserId, toUserId, amountCents, currencyCode,
                           description, id, now)]

\* createNew that stamps processedAt at creation.
createNew_stamped(fromUserId, toUserId, amountCents, currencyCode, description, id, now) ==
  IF trimId(fromUserId) = trimId(toUserId)
  THEN [ok |-> FALSE, error |-> "SelfPayment", pay |-> NoPay]
  ELSE IF amountCents = 0
  THEN [ok |-> FALSE, error |-> "ZeroAmount", pay |-> NoPay]
  ELSE IF Len(description) > MaxDescriptionLen
  THEN [ok |-> FALSE, error |-> "DescriptionTooLong", pay |-> NoPay]
  ELSE [ok |-> TRUE, error |-> "none",
        pay |-> [NewPayment(fromUserId, toUserId, amountCents, currencyCode,
                            description, id, now) EXCEPT !.processedAt = now]]

\* Payment.createNew: [ok, error, pay]; id is what TransactionId.generate()
\* returned and now is new Date().
createNew(fromUserId, toUserId, amountCents, currencyCode, description, id, now) ==
  IF trimId(fromUserId) = trimId(toUserId)
  THEN [ok |-> FALSE, error |-> "SelfPayment", pay |-> NoPay]
  ELSE IF amountCents = 0
  THEN [ok |-> FALSE, error |-> "ZeroAmount", pay |-> NoPay]
  ELSE IF Len(description) > MaxDescriptionLen
  THEN [ok |-> FALSE, error |-> "DescriptionTooLong", pay |-> NoPay]
  ELSE [ok |-> TRUE, error |-> "none",
        pay |-> NewPayment(fromUserId, toUserId, amountCents, currencyCode,
                           description, id, now)]

\* ------------------------------------------------- PaymentRepository (Mongo)
\* PaymentRepository.findById: the document mapped back to a Payment, or
\* NoPay for null.
findById(store, tid) ==
  IF tid \in DOMAIN store THEN store[tid] ELSE NoPay

\* save() that replaces the document on an id collision before it throws.
save_overwrites(store, pay) ==
  IF pay.id \in DOMAIN store
  THEN [ok |-> FALSE, error |-> "Duplicate",
        db |-> [store EXCEPT ![pay.id] = pay]]
  ELSE IF Len(pay.description) = 0
  THEN [ok |-> FALSE, error |-> "Validation", db |-> store]
  ELSE [ok |-> TRUE, error |-> "none",
        db |-> [t \in DOMAIN store \cup {pay.id} |->
                  IF t = pay.id THEN pay ELSE store[t]]]

\* PaymentRepository.save: an insert keyed on _id; [ok, error, db].  It
\* throws on an id collision (error code 11000) and when the schema's
\* validation rejects the document: description is a required string
\* (mongo.schema.ts:56-60), which an empty one fails.
save(store, pay) ==
  IF pay.id \in DOMAIN store
  THEN [ok |-> FALSE, error |-> "Duplicate", db |-> store]
  ELSE IF Len(pay.description) = 0
  THEN [ok |-> FALSE, error |-> "Validation", db |-> store]
  ELSE [ok |-> TRUE, error |-> "none",
        db |-> [t \in DOMAIN store \cup {pay.id} |->
                  IF t = pay.id THEN pay ELSE store[t]]]

\* update() that also writes the description of the in-memory payment,
\* cut to nothing.
update_dropsDescription(store, pay) ==
  IF pay.id \notin DOMAIN store
  THEN [ok |-> FALSE, db |-> store]
  ELSE [ok |-> TRUE,
        db |-> [store EXCEPT ![pay.id].status = pay.status,
                             ![pay.id].processedAt = pay.processedAt,
                             ![pay.id].description = <<>>]]

\* PaymentRepository.update: an unconditional updateOne keyed on _id only,
\* writing status and processedAt; throws when no document matched.
update(store, pay) ==
  IF pay.id \notin DOMAIN store
  THEN [ok |-> FALSE, db |-> store]
  ELSE [ok |-> TRUE,
        db |-> [store EXCEPT ![pay.id].status = pay.status,
                             ![pay.id].processedAt = pay.processedAt]]

\* What the storage backend does with an updateOne: it stores the change, or
\* the call is rejected with an error and nothing is stored.
StorageOutcomes == {"stored", "failed"}

\* update() against a backend that may fail: [ok, error, db].
tryUpdate(store, pay, sto) ==
  IF sto = "failed"
  THEN [ok |-> FALSE, error |-> "StorageError", db |-> store]
  ELSE LET u == update(store, pay)
       IN [ok |-> u.ok,
           error |-> IF u.ok THEN "none" ELSE "PaymentNotFound",
           db |-> u.db]

\* ------------------------------------------- account service (collaborator)
\* getAccount: the balance of the user, NotFound when the account is gone.
getAccount(udb, userId) ==
  IF userId \in DOMAIN udb THEN udb[userId] ELSE NotFound

\* The atomic transfer of the account service: both balances move, or the
\* transfer is rejected (account missing, insufficient balance) and neither
\* does.
transferApply(udb, fromUserId, toUserId, amountCents) ==
  IF udb[fromUserId] = NotFound \/ udb[toUserId] = NotFound
  THEN [ok |-> FALSE, udb |-> udb, senderNewBalance |-> 0,
        receiverNewBalance |-> 0]
  ELSE IF udb[fromUserId] < amountCents
  THEN [ok |-> FALSE, udb |-> udb, senderNewBalance |-> 0,
        receiverNewBalance |-> 0]
  ELSE [ok |-> TRUE,
        udb |-> [udb EXCEPT ![fromUserId] = @ - amountCents,
                            ![toUserId] = @ + amountCents],
        senderNewBalance |-> udb[fromUserId] - amountCents,
        receiverNewBalance |-> udb[toUserId] + amountCents]

\* What the network does to one HTTP exchange: it is answered, it never
\* reaches the service, or the service acts and the answer is lost.
NetOutcomes == {"answered", "unavailable", "lost"}

\* --------------------------------------------------------- UserServiceClient
\* UserServiceClient.getUserById: [threw, user]; a 404 is null (NotFound),
\* any other failure is a thrown HttpException.
getUserById(udb, userId, net) ==
  IF net # "answered"
  THEN [threw |-> TRUE, user |-> Unread]
  ELSE IF getAccount(udb, userId) = NotFound
  THEN [threw |-> FALSE, user |-> NotFound]
  ELSE [threw |-> FALSE, user |-> getAccount(udb, userId)]

\* transferBalance against a service that, when its answer is lost, has
\* debited the sender only.
transferBalance_debitOnly(udb, fromUserId, toUserId, amountCents, net) ==
  LET t == transferApply(udb, fromUserId, toUserId, amountCents)
  IN IF net = "unavailable"
     THEN [threw |-> TRUE, udb |-> udb, applied |-> FALSE,
           senderNewBalance |-> 0, receiverNewBalance |-> 0]
     ELSE IF net = "lost"
     THEN [threw |-> TRUE,
           udb |-> [udb EXCEPT ![fromUserId] = t.udb[fromUserId]],
           applied |-> t.ok,
           senderNewBalance |-> 0, receiverNewBalance |-> 0]
     ELSE IF ~t.ok
     THEN [threw |-> TRUE, udb |-> udb, applied |-> FALSE,
           senderNewBalance |-> 0, receiverNewBalance |-> 0]
     ELSE [threw |-> FALSE, udb |-> t.udb, applied |-> TRUE,
           senderNewBalance |-> t.senderNewBalance,
           receiverNewBalance |-> t.receiverNewBalance]

\* transferBalance that takes the service's rejection for a success with
\* the balances as they are.
transferBalance_swallowsRejection(udb, fromUserId, toUserId, amountCents, net) ==
  LET t == transferApply(udb, fromUserId, toUserId, amountCents)
  IN IF net = "unavailable"
     THEN [threw |-> TRUE, udb |-> udb, applied |-> FALSE,
           senderNewBalance |-> 0, receiverNewBalance |-> 0]
     ELSE IF net = "lost"
     THEN [threw |-> TRUE, udb |-> t.udb, applied |-> t.ok,
           senderNewBalance |-> 0, receiverNewBalance |-> 0]
     ELSE IF ~t.ok
     THEN [threw |-> FALSE, udb |-> udb, applied |-> FALSE,
           senderNewBalance |-> udb[fromUserId],
           receiverNewBalance |-> udb[toUserId]]
     ELSE [threw |-> FALSE, udb |-> t.udb, applied |-> TRUE,
           senderNewBalance |-> t.senderNewBalance,
           receiverNewBalance |-> t.receiverNewBalance]

\* UserServiceClient.transferBalance: [threw, udb, senderNewBalance,
\* receiverNewBalance]; udb is the account service's state afterwards.  A
\* non-2xx answer and a network error are both thrown HttpExceptions.
transferBalance(udb, fromUserId, toUserId, amountCents, net) ==
  LET t == transferApply(udb, fromUserId, toUserId, amountCents)
  IN IF net = "unavailable"
     THEN [threw |-> TRUE, udb |-> udb, applied |-> FALSE,
           senderNewBalance |-> 0, receiverNewBalance |-> 0]
     ELSE IF net = "lost"
     THEN [threw |-> TRUE, udb |-> t.udb, applied |-> t.ok,
           senderNewBalance |-> 0, receiverNewBalance |-> 0]
     ELSE IF ~t.ok
     THEN [threw |-> TRUE, udb |-> udb, applied |-> FALSE,
           senderNewBalance |-> 0, receiverNewBalance |-> 0]
     ELSE [threw |-> FALSE, udb |-> t.udb, applied |-> TRUE,
           senderNewBalance |-> t.senderNewBalance,
           receiverNewBalance |-> t.receiverNewBalance]

\* ------------------------------------------------------ invocation locals
\* ProcessPaymentResponse / RefundPaymentResponse: id, status, processedAt
\* and the two formatted balances (<<>> when the response carries none).
NoResp ==
  [id |-> "", status |-> "NONE", processedAt |-> Null,
   senderNewBalance |-> <<>>, receiverNewBalance |-> <<>>]

\* The locals of one execute() call, and (from `read` on) what the
\* invocation has done so far.
\* SendPaymentRequest, field by field as execute() reads it (a field not
\* read yet is as in NoReq); amountCents is a JavaScript number, in halves.
NoReq ==
  [fromUserId |-> "", toUserId |-> "", amountCents |-> 0,
   currencyCode |-> <<>>, description |-> <<>>]

NoInv ==
  [op |-> "none", tid |-> "", req |-> NoReq, pay |-> NoPay,
   sender |-> Unread, receiver |-> Unread,
   senderNewBalance |-> 0, receiverNewBalance |-> 0,
   outcome |-> "none", message |-> "none", detail |-> "none", resp |-> NoResp,
   read |-> "NONE",       \* status findById returned
   lookups |-> 0,         \* getUserById calls made
   lookedUp |-> <<>>,     \* the user ids they were made for, in order
   calls |-> 0,           \* transferBalance calls made
   applied |-> 0,         \* of those, applied by the account service
   gotOk |-> FALSE,       \* transferBalance returned a success response
   svcErr |-> FALSE,      \* getUserById or transferBalance threw
   completed |-> FALSE,   \* complete() was applied
   writes |-> 0,          \* repository updates made
   lastStatus |-> "NONE", \* status and processedAt of the last update
   lastProcessedAt |-> Null,
   preSender |-> Unread,  \* balances the successful transfer found
   preReceiver |-> Unread]

\* A throw that leaves execute(): the invocation ends with an Error.
Thrown(loc, message, detail) ==
  [loc EXCEPT !.outcome = "threw", !.message = message, !.detail = detail]

\* A repository update that went through, noted in the locals.
Wrote(loc) ==
  [loc EXCEPT !.writes = @ + 1, !.lastStatus = loc.pay.status,
              !.lastProcessedAt = loc.pay.processedAt]

\* ------------------------------------------------ ProcessPaymentUseCase
\* The solvency check with the comparison turned round.
insufficientBalance_inverted(senderBalance, amountCents) ==
  senderBalance > amountCents

\* processPayment.ts:103, the solvency check.
insufficientBalance(senderBalance, amountCents) ==
  senderBalance < amountCents

\* A catch block that completes the payment instead of failing it.
onServiceError_completes(pay, now) == complete(pay, now)

\* processPayment.ts:141, what the catch block does to the payment.
onServiceError(pay, now) == fail(pay, ReasonText, now)

\* A catch block that calls transferBalance once more when it threw.
Catch_retries(loc, detail, now) ==
  IF detail = "transferBalance" /\ loc.calls < 2
  THEN <<"pp_transfer", loc>>
  ELSE LET f == fail(loc.pay, ReasonText, now)
       IN IF f.ok
          THEN <<"pp_updateCatch",
                 [loc EXCEPT !.pay = f.pay, !.message = "PaymentFailed",
                             !.detail = detail]>>
          ELSE <<"done", Thrown(loc, "InvalidTransition", "fail")>>

\* The catch block: fail the payment and go on to persist it; a throw of
\* fail() inside the catch block leaves execute().
Catch(loc, detail, now) ==
  LET f == onServiceError(loc.pay, now)
  IN IF f.ok
     THEN <<"pp_updateCatch",
            [loc EXCEPT !.pay = f.pay, !.message = "PaymentFailed",
                        !.detail = detail]>>
     ELSE <<"done", Thrown(loc, "InvalidTransition", "fail")>>

\* payment.fail(<literal>) inside the try block, then on to persist it.
FailInTry(loc, message, now) ==
  LET f == fail(loc.pay, ReasonText, now)
  IN IF f.ok
     THEN <<"pp_updateFail", [loc EXCEPT !.pay = f.pay, !.message = message]>>
     ELSE Catch(loc, "InvalidTransition", now)

\* The response built on a failure return.
FailureResp(loc) ==
  [NoResp EXCEPT !.id = loc.pay.id, !.status = loc.pay.status,
                 !.processedAt = loc.pay.processedAt]

\* Is another ProcessPayment invocation on tid in flight?
InFlight(q, tid) ==
  /\ pc[q] \notin {"idle", "done"}
  /\ inv[q].op = "process"
  /\ inv[q].tid = tid

Step(p, next) ==
  /\ pc' = [pc EXCEPT ![p] = next[1]]
  /\ inv' = [inv EXCEPT ![p] = next[2]]

\* execute(), lines 55-64: findById, "Payment not found", payment.process().
PP_Execute(p, tid) ==
  /\ LET pay == findById(db, tid)
         loc == [NoInv EXCEPT !.op = "process", !.tid = tid,
                              !.read = pay.status, !.pay = pay]
         r == process(pay)
     IN IF pay.status = "NONE"
        THEN Step(p, <<"done", Thrown(loc, "PaymentNotFound", "none")>>)
        ELSE IF ~r.ok
        THEN Step(p, <<"done", Thrown(loc, "InvalidTransition", "process")>>)
        ELSE Step(p, <<"pp_update1", [loc EXCEPT !.pay = r.pay]>>)
  /\ overlap' = [t \in DOMAIN overlap |->
                   overlap[t] \/ (t = tid /\ \E q \in Procs \ {p} : InFlight(q, tid))]
  /\ UNCHANGED <<db, userDb, clock, moved, okReplies, reversed, ent, entLast, arg, ret>>

\* A request handler that is free calls execute().
PP_FindById(p, tid) ==
  /\ pc[p] = "idle"
  /\ PP_Execute(p, tid)

\* execute(), line 65: persist PROCESSING (outside the try block).
PP_Update1(p, sto) ==
  /\ pc[p] = "pp_update1"
  /\ LET u == tryUpdate(db, inv[p].pay, sto)
     IN /\ db' = u.db
        /\ IF u.ok
           THEN Step(p, <<"pp_getSender", Wrote(inv[p])>>)
           ELSE Step(p, <<"done", Thrown(inv[p], u.error, "update")>>)
  /\ UNCHANGED <<userDb, clock, moved, okReplies, reversed, overlap, ent, entLast, arg, ret>>

\* execute(), lines 68-83: look the sender up.
PP_GetSender(p) ==
  /\ pc[p] = "pp_getSender"
  /\ \E net \in {"answered", "unavailable"} :
       LET g == getUserById(userDb, inv[p].pay.fromUserId, net)
           loc == [inv[p] EXCEPT !.lookups = @ + 1,
                                 !.lookedUp = Append(@, inv[p].pay.fromUserId)]
       IN IF g.threw
          THEN Step(p, Catch([loc EXCEPT !.svcErr = TRUE], "getUserById", clock))
          ELSE IF g.user = NotFound
          THEN Step(p, FailInTry([loc EXCEPT !.sender = NotFound],
                                 "SenderNotFound", clock))
          ELSE Step(p, <<"pp_getReceiver", [loc EXCEPT !.sender = g.user]>>)
  /\ UNCHANGED <<db, userDb, clock, moved, okReplies, reversed, overlap, ent, entLast, arg, ret>>

\* execute(), lines 85-113: look the receiver up, then check the sender's
\* balance against the amount.
PP_GetReceiver(p) ==
  /\ pc[p] = "pp_getReceiver"
  /\ \E net \in {"answered", "unavailable"} :
       LET g == getUserById(userDb, inv[p].pay.toUserId, net)
           loc == [inv[p] EXCEPT !.lookups = @ + 1,
                                 !.lookedUp = Append(@, inv[p].pay.toUserId)]
       IN IF g.threw
          THEN Step(p, Catch([loc EXCEPT !.svcErr = TRUE], "getUserById", clock))
          ELSE IF g.user = NotFound
          THEN Step(p, FailInTry([loc EXCEPT !.receiver = NotFound],
                                 "ReceiverNotFound", clock))
          ELSE IF insufficientBalance(loc.sender, loc.pay.amountCents)
          THEN Step(p, FailInTry([loc EXCEPT !.receiver = g.user],
                                 "InsufficientBalance", clock))
          ELSE Step(p, <<"pp_transfer", [loc EXCEPT !.receiver = g.user]>>)
  /\ UNCHANGED <<db, userDb, clock, moved, okReplies, reversed, overlap, ent, entLast, arg, ret>>

\* execute(), lines 75-82, 92-99, 105-112: persist the failed payment and
\* return the failure response.  The insufficient-balance message formats
\* Amount.create(sender.balance).
PP_UpdateFail(p, sto) ==
  /\ pc[p] = "pp_updateFail"
  /\ LET u == tryUpdate(db, inv[p].pay, sto)
         loc == Wrote(inv[p])
         a == AmountCreate(inv[p].sender)
     IN /\ db' = u.db
        /\ IF ~u.ok
           THEN Step(p, Catch(inv[p], "update", clock))
           ELSE IF loc.message = "InsufficientBalance" /\ ~a.ok
           THEN Step(p, Catch(loc, "Amount", clock))
           ELSE Step(p, <<"done", [loc EXCEPT !.outcome = "returned",
                                              !.resp = FailureResp(loc)]>>)
  /\ UNCHANGED <<userDb, clock, moved, okReplies, reversed, overlap, ent, entLast, arg, ret>>

\* execute(), lines 115-123: the transfer, then payment.complete().
PP_Transfer(p) ==
  /\ pc[p] = "pp_transfer"
  /\ \E net \in NetOutcomes :
       LET pay == inv[p].pay
           t == transferBalance(userDb, pay.fromUserId, pay.toUserId,
                                pay.amountCents, net)
           loc == [inv[p] EXCEPT !.calls = @ + 1,
                                 !.applied = @ + (IF t.applied THEN 1 ELSE 0)]
           c == complete(pay, clock)
       IN /\ userDb' = t.udb
          /\ moved' = [moved EXCEPT ![pay.id] = @ + (IF t.applied THEN 1 ELSE 0)]
          /\ okReplies' = [okReplies EXCEPT ![pay.id] = @ + (IF t.threw THEN 0 ELSE 1)]
          /\ IF t.threw
             THEN Step(p, Catch([loc EXCEPT !.svcErr = TRUE], "transferBalance", clock))
             ELSE LET ok == [loc EXCEPT !.gotOk = TRUE,
                                        !.senderNewBalance = t.senderNewBalance,
                                        !.receiverNewBalance = t.receiverNewBalance,
                                        !.preSender = userDb[pay.fromUserId],
                                        !.preReceiver = userDb[pay.toUserId]]
                  IN IF c.ok
                     THEN Step(p, <<"pp_updateComplete",
                                    [ok EXCEPT !.pay = c.pay, !.completed = TRUE]>>)
                     ELSE Step(p, Catch(ok, "InvalidTransition", clock))
  /\ UNCHANGED <<db, clock, reversed, overlap, ent, entLast, arg, ret>>

\* execute(), lines 124-138: persist COMPLETED and build the success
\* response, formatting Amount.create of both new balances.
PP_UpdateComplete(p, sto) ==
  /\ pc[p] = "pp_updateComplete"
  /\ LET u == tryUpdate(db, inv[p].pay, sto)
         loc == Wrote(inv[p])
         s == AmountCreate(loc.senderNewBalance)
         r == AmountCreate(loc.receiverNewBalance)
     IN /\ db' = u.db
        /\ IF ~u.ok
           THEN Step(p, Catch(inv[p], "update", clock))
           ELSE IF ~s.ok \/ ~r.ok
           THEN Step(p, Catch(loc, "Amount", clock))
           ELSE Step(p, <<"done",
                  [loc EXCEPT
                     !.outcome = "returned", !.message = "Completed",
                     !.resp = [id |-> loc.pay.id, status |-> loc.pay.status,
                               processedAt |-> loc.pay.processedAt,
                               senderNewBalance |-> toFormattedString(s.valueCents),
                               receiverNewBalance |-> toFormattedString(r.valueCents)]]>>)
  /\ UNCHANGED <<userDb, clock, moved, okReplies, reversed, overlap, ent, entLast, arg, ret>>

\* execute(), lines 142-149: persist the payment failed by the catch block
\* and return the failure response; a throw here leaves execute().
PP_UpdateCatch(p, sto) ==
  /\ pc[p] = "pp_updateCatch"
  /\ LET u == tryUpdate(db, inv[p].pay, sto)
         loc == Wrote(inv[p])
     IN /\ db' = u.db
        /\ IF ~u.ok
           THEN Step(p, <<"done", Thrown(inv[p], u.error, "update")>>)
           ELSE Step(p, <<"done", [loc EXCEPT !.outcome = "returned",
                                              !.resp = FailureResp(loc)]>>)
  /\ UNCHANGED <<userDb, clock, moved, okReplies, reversed, overlap, ent, entLast, arg, ret>>

\* --------------------------------------------------- RefundPaymentUseCase
\* The catch block of RefundPaymentUseCase.execute rethrows every error as
\* "Refund failed: ...".
RefundFailed(loc, detail) == <<"done", Thrown(loc, "RefundFailed", detail)>>

\* The refund's solvency check, never failing.
receiverCannotRefund_never(receiverBalance, amountCents) == FALSE

\* part_008:81, the refund's solvency check on the original receiver.
receiverCannotRefund(receiverBalance, amountCents) ==
  receiverBalance < amountCents

\* execute(), lines 51-61: findById, "Payment not found", payment.refund().
RF_Execute(p, tid) ==
  /\ LET pay == findById(db, tid)
         loc == [NoInv EXCEPT !.op = "refund", !.tid = tid,
                              !.read = pay.status, !.pay = pay]
         r == refund(pay)
     IN IF pay.status = "NONE"
        THEN Step(p, <<"done", Thrown(loc, "PaymentNotFound", "none")>>)
        ELSE IF ~r.ok
        THEN Step(p, <<"done", Thrown(loc, "InvalidTransition", "refund")>>)
        ELSE Step(p, <<"rf_getSender", [loc EXCEPT !.pay = r.pay]>>)
  /\ UNCHANGED <<db, userDb, clock, moved, okReplies, reversed, overlap, ent, entLast, arg, ret>>

\* A request handler that is free calls execute().
RF_FindById(p, tid) ==
  /\ pc[p] = "idle"
  /\ RF_Execute(p, tid)

\* execute(), lines 64-70: look the original sender up.
RF_GetSender(p) ==
  /\ pc[p] = "rf_getSender"
  /\ \E net \in {"answered", "unavailable"} :
       LET g == getUserById(userDb, inv[p].pay.fromUserId, net)
           loc == [inv[p] EXCEPT !.lookups = @ + 1,
                                 !.lookedUp = Append(@, inv[p].pay.fromUserId)]
       IN IF g.threw
          THEN Step(p, RefundFailed([loc EXCEPT !.svcErr = TRUE], "getUserById"))
          ELSE IF g.user = NotFound
          THEN Step(p, RefundFailed([loc EXCEPT !.sender = NotFound],
                                    "SenderNotFound"))
          ELSE Step(p, <<"rf_getReceiver", [loc EXCEPT !.sender = g.user]>>)
  /\ UNCHANGED <<db, userDb, clock, moved, okReplies, reversed, overlap, ent, entLast, arg, ret>>

\* execute(), lines 72-85: look the original receiver up and check that it
\* still holds the amount.
RF_GetReceiver(p) ==
  /\ pc[p] = "rf_getReceiver"
  /\ \E net \in {"answered", "unavailable"} :
       LET g == getUserById(userDb, inv[p].pay.toUserId, net)
           loc == [inv[p] EXCEPT !.lookups = @ + 1,
                                 !.lookedUp = Append(@, inv[p].pay.toUserId)]
       IN IF g.threw
          THEN Step(p, RefundFailed([loc EXCEPT !.svcErr = TRUE], "getUserById"))
          ELSE IF g.user = NotFound
          THEN Step(p, RefundFailed([loc EXCEPT !.receiver = NotFound],
                                    "ReceiverNotFound"))
          ELSE IF receiverCannotRefund(g.user, loc.pay.amountCents)
          THEN Step(p, RefundFailed([loc EXCEPT !.receiver = g.user],
                                    "InsufficientBalance"))
          ELSE Step(p, <<"rf_transfer", [loc EXCEPT !.receiver = g.user]>>)
  /\ UNCHANGED <<db, userDb, clock, moved, okReplies, reversed, overlap, ent, entLast, arg, ret>>

\* A refund transfer in the payment's own direction.
refundTransferRequest_unreversed(pay) ==
  [fromUserId |-> pay.fromUserId, toUserId |-> pay.toUserId,
   amount |-> pay.amountCents]

\* part_008:89-93, the arguments of the refund's transferBalance call.
refundTransferRequest(pay) ==
  [fromUserId |-> pay.toUserId, toUserId |-> pay.fromUserId,
   amount |-> pay.amountCents]

\* execute(), lines 87-93: the transfer with the roles reversed.
RF_Transfer(p) ==
  /\ pc[p] = "rf_transfer"
  /\ \E net \in NetOutcomes :
       LET pay == inv[p].pay
           req == refundTransferRequest(pay)
           t == transferBalance(userDb, req.fromUserId, req.toUserId,
                                req.amount, net)
           loc == [inv[p] EXCEPT !.calls = @ + 1,
                                 !.applied = @ + (IF t.applied THEN 1 ELSE 0)]
       IN /\ userDb' = t.udb
          /\ reversed' = [reversed EXCEPT ![pay.id] = @ + (IF t.applied THEN 1 ELSE 0)]
          /\ IF t.threw
             THEN Step(p, RefundFailed([loc EXCEPT !.svcErr = TRUE], "transferBalance"))
             ELSE Step(p, <<"rf_update",
                    [loc EXCEPT !.gotOk = TRUE,
                                !.senderNewBalance = t.senderNewBalance,
                                !.receiverNewBalance = t.receiverNewBalance,
                                !.preSender = userDb[req.fromUserId],
                                !.preReceiver = userDb[req.toUserId]]>>)
  /\ UNCHANGED <<db, clock, moved, okReplies, overlap, ent, entLast, arg, ret>>

\* execute(), lines 95-110: persist REFUNDED and build the response; the
\* transfer's receiver is the original sender, and the other way round.
RF_Update(p, sto) ==
  /\ pc[p] = "rf_update"
  /\ LET u == tryUpdate(db, inv[p].pay, sto)
         loc == Wrote(inv[p])
         s == AmountCreate(loc.receiverNewBalance)
         r == AmountCreate(loc.senderNewBalance)
     IN /\ db' = u.db
        /\ IF ~u.ok
           THEN Step(p, RefundFailed(inv[p], "update"))
           ELSE IF ~s.ok \/ ~r.ok
           THEN Step(p, RefundFailed(loc, "Amount"))
           ELSE Step(p, <<"done",
                  [loc EXCEPT
                     !.outcome = "returned", !.message = "Refunded",
                     !.resp = [id |-> loc.pay.id, status |-> loc.pay.status,
                               processedAt |-> loc.pay.processedAt,
                               senderNewBalance |-> toFormattedString(s.valueCents),
                               receiverNewBalance |-> toFormattedString(r.valueCents)]]>>)
  /\ UNCHANGED <<userDb, clock, moved, okReplies, reversed, overlap, ent, entLast, arg, ret>>

\* ------------------------------------------------------ SendPaymentUseCase
\* The catch block of SendPaymentUseCase.execute rethrows every error as
\* "Payment creation failed: ...".
CreationFailed(loc, detail) == <<"done", Thrown(loc, "CreationFailed", detail)>>

\* The user ids, amounts (in halves: negative, fractional, zero, payable,
\* above the maximum), currency codes and descriptions (empty, of the
\* longest length accepted, one character longer) of the requests.
SendUsers == Users \cup {NoAccountId}
SendAmounts == {-2, 0, 1, 2 * MaxPaymentCents, 2 * (MaxAmountCents + 1)}
SendCurrencies == {<<" ", "u", "s", "d">>, <<"G", "B", "P">>}
SendDescriptions ==
  {d \in Descriptions :
     /\ \A i \in 1..Len(d) : d[i] = "x"
     /\ Len(d) \in {0, MaxDescriptionLen, MaxDescriptionLen + 1}}

\* execute(), lines 104-109: look the sender up.
SP_GetSender(p, fromUserId, toUserId) ==
  /\ pc[p] = "idle"
  /\ \E net \in {"answered", "unavailable"} :
       LET g == getUserById(userDb, fromUserId, net)
           loc == [NoInv EXCEPT !.op = "send", !.lookups = 1,
                                !.lookedUp = <<fromUserId>>,
                                !.req.fromUserId = fromUserId,
                                !.req.toUserId = toUserId]
       IN IF g.threw
          THEN Step(p, CreationFailed([loc EXCEPT !.svcErr = TRUE], "getUserById"))
          ELSE IF g.user = NotFound
          THEN Step(p, CreationFailed([loc EXCEPT !.sender = NotFound],
                                      "SenderNotFound"))
          ELSE Step(p, <<"sp_getReceiver", [loc EXCEPT !.sender = g.user]>>)
  /\ UNCHANGED <<db, userDb, clock, moved, okReplies, reversed, overlap, ent, entLast, arg, ret>>

\* Lines 119-129, once both accounts are known to exist: Amount.create,
\* Currency.create and Payment.createNew, which draws the transaction id.
\* The fields of the request are drawn as the code reads them: one that is
\* never read (an error came first) has no effect on the run.
Validated(loc) ==
  {IF ~Amount_create(MaxAmountCents, amountCents).ok
   THEN CreationFailed([loc EXCEPT !.req.amountCents = amountCents], "Amount")
   ELSE IF ~CurrencyCreate(currencyCode).ok
   THEN CreationFailed([loc EXCEPT !.req.amountCents = amountCents,
                                   !.req.currencyCode = currencyCode],
                       "Currency")
   ELSE LET req == [loc.req EXCEPT !.amountCents = amountCents,
                                   !.currencyCode = currencyCode,
                                   !.description = description]
            n == createNew(req.fromUserId, req.toUserId,
                           Amount_create(MaxAmountCents, amountCents).valueCents,
                           CurrencyCreate(currencyCode).code,
                           description, id, clock)
        IN IF ~n.ok
           THEN CreationFailed([loc EXCEPT !.req = req], n.error)
           ELSE <<"sp_save", [loc EXCEPT !.req = req, !.pay = n.pay,
                                         !.tid = n.pay.id]>> :
     amountCents \in SendAmounts, currencyCode \in SendCurrencies,
     description \in SendDescriptions, id \in GeneratedIds}

\* execute(), lines 111-129: look the receiver up, then build the payment.
SP_GetReceiver(p) ==
  /\ pc[p] = "sp_getReceiver"
  /\ \E net \in {"answered", "unavailable"} :
       LET g == getUserById(userDb, inv[p].req.toUserId, net)
           loc == [inv[p] EXCEPT !.lookups = @ + 1,
                                 !.lookedUp = Append(@, inv[p].req.toUserId)]
       IN IF g.threw
          THEN Step(p, CreationFailed([loc EXCEPT !.svcErr = TRUE], "getUserById"))
          ELSE IF g.user = NotFound
          THEN Step(p, CreationFailed([loc EXCEPT !.receiver = NotFound],
                                      "ReceiverNotFound"))
          ELSE \E next \in Validated([loc EXCEPT !.receiver = g.user]) :
                 Step(p, next)
  /\ UNCHANGED <<db, userDb, clock, moved, okReplies, reversed, overlap, ent, entLast, arg, ret>>

\* execute(), lines 131-144: save the payment and build the response.
\* `writes` counts the saves that changed the store.
SP_Save(p) ==
  /\ pc[p] = "sp_save"
  /\ LET pay == inv[p].pay
         s == save(db, pay)
         loc == [inv[p] EXCEPT !.writes = @ + (IF s.db # db THEN 1 ELSE 0)]
     IN /\ db' = s.db
        /\ IF ~s.ok
           THEN Step(p, CreationFailed(loc, s.error))
           ELSE Step(p, <<"done",
                  [loc EXCEPT
                     !.outcome = "returned", !.message = "Created",
                     !.lastStatus = pay.status,
                     !.lastProcessedAt = pay.processedAt,
                     !.resp = [id |-> pay.id, fromUserId |-> pay.fromUserId,
                               toUserId |-> pay.toUserId,
                               amount |-> toFormattedString(pay.amountCents),
                               currency |-> pay.currencyCode,
                               status |-> pay.status,
                               description |-> pay.description,
                               createdAt |-> pay.createdAt]]>>)
  /\ UNCHANGED <<userDb, clock, moved, okReplies, reversed, overlap, ent, entLast, arg, ret>>

\* --------------------------------------------------- GetPaymentByIdUseCase
\* The response that leaves out the time the payment was processed.
GetPaymentByIdResponse_unprocessed(pay) ==
  [id |-> pay.id, fromUserId |-> pay.fromUserId, toUserId |-> pay.toUserId,
   amount |-> toFormattedString(pay.amountCents),
   currency |-> pay.currencyCode, status |-> pay.status,
   description |-> pay.description, createdAt |-> pay.createdAt,
   processedAt |-> Null]

\* GetPaymentByIdResponse: the fields of the payment found.
GetPaymentByIdResponse(pay) ==
  [id |-> pay.id, fromUserId |-> pay.fromUserId, toUserId |-> pay.toUserId,
   amount |-> toFormattedString(pay.amountCents),
   currency |-> pay.currencyCode, status |-> pay.status,
   description |-> pay.description, createdAt |-> pay.createdAt,
   processedAt |-> pay.processedAt]

\* execute(): findById, "Payment not found", the payment's fields.
GP_FindById(p, tid) ==
  /\ pc[p] = "idle"
  /\ LET pay == findById(db, tid)
         loc == [NoInv EXCEPT !.op = "get", !.tid = tid, !.read = pay.status]
     IN IF pay.status = "NONE"
        THEN Step(p, <<"done", Thrown(loc, "PaymentNotFound", "none")>>)
        ELSE Step(p, <<"done",
               [loc EXCEPT
                  !.outcome = "returned",
                  !.resp = GetPaymentByIdResponse(pay)]>>)
  /\ UNCHANGED <<db, userDb, clock, moved, okReplies, reversed, overlap, ent, entLast, arg, ret>>

\* -------------------------------------------- GetUserPaymentHistoryUseCase
\* The $or filter that matches the payments the user received only.
findByUserId_receivedOnly(store, userId) ==
  {t \in DOMAIN store : store[t].toUserId = userId}

\* PaymentRepository.findByUserId, the filter: the ids of the payments the
\* user sent or received.
findByUserId(store, userId) ==
  {t \in DOMAIN store :
     store[t].fromUserId = userId \/ store[t].toUserId = userId}

\* PaymentRepository.findByUserId, .sort({createdAt: -1}): the orders the
\* query can return the matching documents in, newest first, documents of
\* the same createdAt in any order.
sortedDocuments(store, ids) ==
  {order \in [1..Cardinality(ids) -> ids] :
     /\ \A i, j \in DOMAIN order : i # j => order[i] # order[j]
     /\ \A i \in DOMAIN order : \A j \in DOMAIN order :
          i < j => store[order[i]].createdAt >= store[order[j]].createdAt}

\* PaymentSummary: the payment seen from userId.
PaymentSummary(pay, userId) ==
  [id |-> pay.id,
   type |-> IF pay.fromUserId = userId THEN "SENT" ELSE "RECEIVED",
   otherUserId |-> IF pay.fromUserId = userId THEN pay.toUserId
                   ELSE pay.fromUserId,
   amount |-> toFormattedString(pay.amountCents),
   currency |-> pay.currencyCode, status |-> pay.status,
   description |-> pay.description, createdAt |-> pay.createdAt,
   processedAt |-> pay.processedAt]

\* Array.prototype.sort with the comparator b.createdAt - a.createdAt: a
\* stable sort, so elements of the same createdAt keep their order.
RECURSIVE SortDescending(_)
SortDescending(s) ==
  IF s = <<>> THEN <<>>
  ELSE LET rest == SortDescending(SubSeq(s, 1, Len(s) - 1))
           last == s[Len(s)]
           k == Cardinality({i \in 1..Len(rest) :
                               rest[i].createdAt >= last.createdAt})
       IN SubSeq(rest, 1, k) \o <<last>> \o SubSeq(rest, k + 1, Len(rest))

\* A sort that returns the summaries in the opposite order.
sortNewestFirst_reversed(summaries) ==
  [i \in 1..Len(summaries) |-> summaries[Len(summaries) + 1 - i]]

\* .sort((a, b) => b.createdAt.getTime() - a.createdAt.getTime()): the
\* summaries, newest first.
sortNewestFirst(summaries) == SortDescending(summaries)

\* execute(): the user id is validated and trimmed, findByUserId returns the
\* payments, and the response carries the three counts and the summaries.
UH_FindByUserId(p, userId) ==
  /\ pc[p] = "idle"
  /\ LET loc == [NoInv EXCEPT !.op = "history"]
         id == trimId(userId)
     IN IF userId = "" \/ id = ""
        THEN Step(p, <<"done", Thrown(loc, "UserIdRequired", "none")>>)
        ELSE \E order \in sortedDocuments(db, findByUserId(db, id)) :
               LET allPayments == [i \in DOMAIN order |-> db[order[i]]]
                   isSent(pay) == pay.fromUserId = id
                   isReceived(pay) == pay.toUserId = id
                   sentPayments == SelectSeq(allPayments, isSent)
                   receivedPayments == SelectSeq(allPayments, isReceived)
                   paymentSummaries ==
                     sortNewestFirst([i \in DOMAIN allPayments |->
                                        PaymentSummary(allPayments[i], id)])
               IN Step(p, <<"done",
                    [loc EXCEPT
                       !.outcome = "returned",
                       !.resp = [userId |-> id,
                                 totalPayments |-> Len(allPayments),
                                 sentPayments |-> Len(sentPayments),
                                 receivedPayments |-> Len(receivedPayments),
                                 payments |-> paymentSummaries]]>>)
  /\ UNCHANGED <<db, userDb, clock, moved, okReplies, reversed, overlap, ent, entLast, arg, ret>>

\* ------------------------------------------------------ PaymentController
\* The id of the authenticated user, @CurrentUser('id'); SpecAuth keeps it
\* in arg.
currentUserId == arg.currentUserId

\* A ForbiddenException thrown by the controller.
Forbidden(loc) == <<"done", Thrown(loc, "Forbidden", "controller")>>

\* An ownership check that lets the receiver through as well.
ownsPayment_orReceiver(pay, userId) ==
  pay.fromUserId = userId \/ pay.toUserId = userId

\* processPayment and refundPayment: payment.fromUserId !== currentUserId.
ownsPayment(pay, userId) == pay.fromUserId = userId

\* getPaymentById: the user is the payment's sender or its receiver.
involvedIn(pay, userId) == pay.fromUserId = userId \/ pay.toUserId = userId

\* PaymentController.sendPayment.
CT_SendPayment(p, fromUserId, toUserId) ==
  IF fromUserId # currentUserId
  THEN /\ pc[p] = "idle"
       /\ Step(p, Forbidden([NoInv EXCEPT !.op = "send",
                                          !.req.fromUserId = fromUserId,
                                          !.req.toUserId = toUserId]))
       /\ UNCHANGED <<db, userDb, clock, moved, okReplies, reversed, overlap,
                      ent, entLast, arg, ret>>
  ELSE SP_GetSender(p, fromUserId, toUserId)

\* PaymentController.getPaymentById: the use case first, then the check.
CT_GetPaymentById(p, tid) ==
  /\ pc[p] = "idle"
  /\ LET pay == findById(db, tid)
         loc == [NoInv EXCEPT !.op = "get", !.tid = tid, !.read = pay.status]
     IN IF pay.status = "NONE"
        THEN Step(p, <<"done", Thrown(loc, "PaymentNotFound", "none")>>)
        ELSE IF ~involvedIn(GetPaymentByIdResponse(pay), currentUserId)
        THEN Step(p, Forbidden(loc))
        ELSE Step(p, <<"done",
               [loc EXCEPT
                  !.outcome = "returned",
                  !.resp = GetPaymentByIdResponse(pay)]>>)
  /\ UNCHANGED <<db, userDb, clock, moved, okReplies, reversed, overlap,
                 ent, entLast, arg, ret>>

\* PaymentController.getUserPaymentHistory.
CT_GetUserPaymentHistory(p, userId) ==
  IF userId # currentUserId
  THEN /\ pc[p] = "idle"
       /\ Step(p, Forbidden([NoInv EXCEPT !.op = "history"]))
       /\ UNCHANGED <<db, userDb, clock, moved, okReplies, reversed, overlap,
                      ent, entLast, arg, ret>>
  ELSE UH_FindByUserId(p, userId)

\* PaymentController.processPayment and refundPayment, up to the await of
\* the use case: getPaymentByIdUseCase.execute, then the ownership check.
CT_CheckOwner(p, op, tid) ==
  /\ LET pay == findById(db, tid)
         loc == [NoInv EXCEPT !.op = op, !.tid = tid, !.read = pay.status]
     IN IF pay.status = "NONE"
        THEN Step(p, <<"done", Thrown(loc, "PaymentNotFound", "none")>>)
        ELSE IF ~ownsPayment(GetPaymentByIdResponse(pay), currentUserId)
        THEN Step(p, Forbidden(loc))
        ELSE Step(p, <<"ct_" \o op, loc>>)
  /\ UNCHANGED <<db, userDb, clock, moved, okReplies, reversed, overlap,
                 ent, entLast, arg, ret>>

CT_ProcessPayment(p, tid) ==
  /\ pc[p] = "idle"
  /\ CT_CheckOwner(p, "process", tid)

CT_RefundPayment(p, tid) ==
  /\ pc[p] = "idle"
  /\ CT_CheckOwner(p, "refund", tid)

\* The owner's request goes on to the use case.
CT_ProcessExecute(p) ==
  /\ pc[p] = "ct_process"
  /\ PP_Execute(p, inv[p].tid)

CT_RefundExecute(p) ==
  /\ pc[p] = "ct_refund"
  /\ RF_Execute(p, inv[p].tid)

\* The next request comes with another user's token.
CT_Authenticate(userId) ==
  /\ \A p \in Procs : pc[p] = "idle"
  /\ userId # currentUserId
  /\ arg' = [arg EXCEPT !.currentUserId = userId]
  /\ UNCHANGED <<db, userDb, clock, pc, inv, moved, okReplies, reversed,
                 overlap, ent, entLast, ret>>

\* ------------------------------------------------------------ environment
\* The response has gone out; the handler takes the next request.
Reset(p) ==
  /\ pc[p] = "done"
  /\ pc' = [pc EXCEPT ![p] = "idle"]
  /\ inv' = [inv EXCEPT ![p] = NoInv]
  /\ UNCHANGED <<db, userDb, clock, moved, okReplies, reversed, overlap, ent, entLast, arg, ret>>

\* DeleteUserUseCase.execute: an existing account is deleted.
DeleteUser(u) ==
  /\ userDb[u] # NotFound
  /\ userDb' = [userDb EXCEPT ![u] = NotFound]
  /\ UNCHANGED <<db, clock, pc, inv, moved, okReplies, reversed, overlap, ent, entLast, arg, ret>>

\* ------------------------------------------------------------------- Spec
\* The store holds one payment as SendPayment saved it: PENDING, processedAt
\* null, between two existing accounts.  Spec does not let time pass: every
\* new Date() of the use cases reads the same instant, so processedAt is
\* either null or that instant (SpecPayment is where timestamps differ).
Init ==
  /\ \E a \in 1..MaxPaymentCents :
       db = [t \in PayIds |-> SavedPayment(t, a)]
  /\ userDb \in [Users -> 0..MaxAmountCents]
  /\ clock = 1
  /\ pc = [p \in Procs |-> "idle"]
  /\ inv = [p \in Procs |-> NoInv]
  /\ moved = [t \in PayIds |-> 0]
  /\ okReplies = [t \in PayIds |-> 0]
  /\ reversed = [t \in PayIds |-> 0]
  /\ overlap = [t \in PayIds |-> FALSE]
  /\ ent = NoPay
  /\ entLast = [op |-> "none", reason |-> <<>>, ok |-> FALSE, before |-> NoPay]
  /\ arg = NoArg
  /\ ret = NoRet

Next ==
  \/ \E p \in Procs, tid \in PayIds \cup {UnknownId} : PP_FindById(p, tid)
  \/ \E p \in Procs : PP_Update1(p, "stored")
  \/ \E p \in Procs : PP_GetSender(p)
  \/ \E p \in Procs : PP_GetReceiver(p)
  \/ \E p \in Procs : PP_UpdateFail(p, "stored")
  \/ \E p \in Procs : PP_Transfer(p)
  \/ \E p \in Procs : PP_UpdateComplete(p, "stored")
  \/ \E p \in Procs : PP_UpdateCatch(p, "stored")
  \/ \E p \in Procs, tid \in PayIds \cup {UnknownId} : RF_FindById(p, tid)
  \/ \E p \in Procs : RF_GetSender(p)
  \/ \E p \in Procs : RF_GetReceiver(p)
  \/ \E p \in Procs : RF_Transfer(p)
  \/ \E p \in Procs : RF_Update(p, "stored")
  \/ \E p \in Procs : Reset(p)
  \/ \E u \in Users : DeleteUser(u)

Spec == Init /\ [][Next]_vars

\* ------------------------------------------------------------ SpecPayment
\* One Payment object, created by createNew (PENDING, processedAt null),
\* and every sequence of transitions on it.
Attempt(op, reason, r) ==
  /\ ent' = r.pay
  /\ entLast' = [op |-> op, reason |-> reason, ok |-> r.ok, before |-> ent]
  /\ UNCHANGED <<db, userDb, clock, pc, inv, moved, okReplies, reversed, overlap, arg, ret>>

E_Process == Attempt("process", <<>>, process(ent))
E_Complete == Attempt("complete", <<>>, complete(ent, clock))
E_Fail(reason) == Attempt("fail", reason, fail(ent, reason, clock))
E_Refund == Attempt("refund", <<>>, refund(ent))

\* Time passes between two transitions.
E_Tick ==
  /\ clock < MaxClock
  /\ clock' = clock + 1
  /\ UNCHANGED <<db, userDb, pc, inv, moved, okReplies, reversed, overlap, ent, entLast, arg, ret>>

InitPayment ==
  /\ db = [t \in PayIds |-> NoPay]
  /\ userDb = [u \in Users |-> 0]
  /\ clock = 1
  /\ pc = [p \in Procs |-> "idle"]
  /\ inv = [p \in Procs |-> NoInv]
  /\ moved = [t \in PayIds |-> 0]
  /\ okReplies = [t \in PayIds |-> 0]
  /\ reversed = [t \in PayIds |-> 0]
  /\ overlap = [t \in PayIds |-> FALSE]
  /\ \E a \in 1..MaxPaymentCents : ent = SavedPayment("PAY_1", a)
  /\ entLast = [op |-> "none", reason |-> <<>>, ok |-> FALSE, before |-> NoPay]
  /\ arg = NoArg
  /\ ret = NoRet

NextPayment ==
  \/ E_Process
  \/ E_Complete
  \/ \E reason \in Reasons : E_Fail(reason)
  \/ E_Refund
  \/ E_Tick

SpecPayment == InitPayment /\ [][NextPayment]_vars

\* --------------------------------------------------------------- SpecSend
\* One request handler takes SendPayment, GetPaymentById and
\* GetUserPaymentHistory requests while the other takes ProcessPayment and
\* RefundPayment requests for the payment that is already saved.
Senders == {"h1"}
Payers == {"h2"}

\* As Init, with each account either empty or at the largest balance.
InitSend ==
  /\ \E a \in 1..MaxPaymentCents :
       db = [t \in PayIds |-> SavedPayment(t, a)]
  /\ userDb \in [Users -> {0, MaxAmountCents}]
  /\ clock = 1
  /\ pc = [p \in Procs |-> "idle"]
  /\ inv = [p \in Procs |-> NoInv]
  /\ moved = [t \in PayIds |-> 0]
  /\ okReplies = [t \in PayIds |-> 0]
  /\ reversed = [t \in PayIds |-> 0]
  /\ overlap = [t \in PayIds |-> FALSE]
  /\ ent = NoPay
  /\ entLast = [op |-> "none", reason |-> <<>>, ok |-> FALSE, before |-> NoPay]
  /\ arg = NoArg
  /\ ret = NoRet

NextSend ==
  \/ \E p \in Senders, fromUserId \in SendUsers, toUserId \in SendUsers :
       SP_GetSender(p, fromUserId, toUserId)
  \/ \E p \in Senders : SP_GetReceiver(p)
  \/ \E p \in Senders : SP_Save(p)
  \/ \E p \in Senders, tid \in GeneratedIds \cup {UnknownId} : GP_FindById(p, tid)
  \/ \E p \in Senders, userId \in SendUsers \cup PaddedIds : UH_FindByUserId(p, userId)
  \/ \E p \in Payers, tid \in PayIds \cup {UnknownId} : PP_FindById(p, tid)
  \/ \E p \in Payers : PP_Update1(p, "stored")
  \/ \E p \in Payers : PP_GetSender(p)
  \/ \E p \in Payers : PP_GetReceiver(p)
  \/ \E p \in Payers : PP_UpdateFail(p, "stored")
  \/ \E p \in Payers : PP_Transfer(p)
  \/ \E p \in Payers : PP_UpdateComplete(p, "stored")
  \/ \E p \in Payers : PP_UpdateCatch(p, "stored")
  \/ \E p \in Payers, tid \in PayIds \cup {UnknownId} : RF_FindById(p, tid)
  \/ \E p \in Payers : RF_GetSender(p)
  \/ \E p \in Payers : RF_GetReceiver(p)
  \/ \E p \in Payers : RF_Transfer(p)
  \/ \E p \in Payers : RF_Update(p, "stored")
  \/ \E p \in Procs : Reset(p)

SpecSend == InitSend /\ [][NextSend]_vars

\* -------------------------------------------------------------- SpecFault
\* One handler takes ProcessPayment and RefundPayment requests for the saved
\* payment, one after the other, against a storage backend that may reject
\* any update.
NextFault ==
  \/ \E p \in Payers, tid \in PayIds \cup {UnknownId} : PP_FindById(p, tid)
  \/ \E p \in Payers, sto \in StorageOutcomes : PP_Update1(p, sto)
  \/ \E p \in Payers : PP_GetSender(p)
  \/ \E p \in Payers : PP_GetReceiver(p)
  \/ \E p \in Payers, sto \in StorageOutcomes : PP_UpdateFail(p, sto)
  \/ \E p \in Payers : PP_Transfer(p)
  \/ \E p \in Payers, sto \in StorageOutcomes : PP_UpdateComplete(p, sto)
  \/ \E p \in Payers, sto \in StorageOutcomes : PP_UpdateCatch(p, sto)
  \/ \E p \in Payers, tid \in PayIds \cup {UnknownId} : RF_FindById(p, tid)
  \/ \E p \in Payers : RF_GetSender(p)
  \/ \E p \in Payers : RF_GetReceiver(p)
  \/ \E p \in Payers, sto \in StorageOutcomes : RF_Update(p, sto)
  \/ \E p \in Payers : RF_Transfer(p)
  \/ \E p \in Payers : Reset(p)
  \/ \E u \in Users : DeleteUser(u)

SpecFault == Init /\ [][NextFault]_vars

\* SpecFault with every call of a running invocation returning in the end,
\* with a result or with an error: an invocation suspended at an await is
\* resumed.
Resume(p) ==
  \/ \E sto \in StorageOutcomes : PP_Update1(p, sto)
  \/ PP_GetSender(p)
  \/ PP_GetReceiver(p)
  \/ \E sto \in StorageOutcomes : PP_UpdateFail(p, sto)
  \/ PP_Transfer(p)
  \/ \E sto \in StorageOutcomes : PP_UpdateComplete(p, sto)
  \/ \E sto \in StorageOutcomes : PP_UpdateCatch(p, sto)
  \/ RF_GetSender(p)
  \/ RF_GetReceiver(p)
  \/ RF_Transfer(p)
  \/ \E sto \in StorageOutcomes : RF_Update(p, sto)

SpecFaultFair == SpecFault /\ \A p \in Payers : WF_vars(Resume(p))

\* -------------------------------------------------------------- SpecCrash
\* SpecFault with a service process that may die while an invocation waits
\* at an await after it has persisted PROCESSING: the invocation never
\* resumes, its locals are kept here for the record, and the restarted
\* service takes requests again.
Crash(p) ==
  /\ pc[p] \in {"pp_getSender", "pp_getReceiver", "pp_transfer",
               "pp_updateFail", "pp_updateComplete", "pp_updateCatch"}
  /\ pc' = [pc EXCEPT ![p] = "crashed"]
  /\ UNCHANGED <<db, userDb, clock, inv, moved, okReplies, reversed, overlap,
                 ent, entLast, arg, ret>>

\* The service is started again; nothing in it looks at the payments the
\* store holds.
Restart(p) ==
  /\ pc[p] = "crashed"
  /\ pc' = [pc EXCEPT ![p] = "idle"]
  /\ inv' = [inv EXCEPT ![p] = NoInv]
  /\ UNCHANGED <<db, userDb, clock, moved, okReplies, reversed, overlap,
                 ent, entLast, arg, ret>>

NextCrash ==
  \/ NextFault
  \/ \E p \in Payers : Crash(p)
  \/ \E p \in Payers : Restart(p)

\* Every suspended invocation of a live service is resumed, a crashed
\* service is restarted, a served request makes room for the next, and
\* ProcessPayment and RefundPayment requests for the payment keep coming.
SpecCrash ==
  /\ Init
  /\ [][NextCrash]_vars
  /\ \A p \in Payers :
       /\ WF_vars(Resume(p))
       /\ WF_vars(Restart(p))
       /\ WF_vars(Reset(p))
       /\ \A tid \in PayIds :
            SF_vars(PP_FindById(p, tid)) /\ SF_vars(RF_FindById(p, tid))

\* ------------------------------------------------- PaymentExceptionFilter
\* An error message is the sequence of its words, punctuation marks being
\* words of their own.  String.prototype.includes on such messages:
includes(message, pattern) ==
  \E i \in 0..(Len(message) - Len(pattern)) :
    SubSeq(message, i + 1, i + Len(pattern)) = pattern

includesAny(message, patterns) ==
  \E pattern \in patterns : includes(message, pattern)

\* PaymentExceptionFilter.mapDomainErrorToHttp: the first branch whose
\* pattern the message includes decides status and message.
mapDomainErrorToHttp(errorMessage) ==
  IF includesAny(errorMessage,
       {<<"Payment", "not", "found">>,
        <<"not", "found">>})
  THEN [status |-> 404,
        message |-> <<"Payment", "not", "found">>]
  ELSE IF includesAny(errorMessage,
       {<<"Sender", "user", "not", "found">>,
        <<"Receiver", "user", "not", "found">>,
        <<"Original", "sender", "user", "not", "found">>,
        <<"Original", "receiver", "user", "not", "found">>})
  THEN [status |-> 400,
        message |-> <<"One", "or", "more", "users", "involved", "in", "the", "payment", "do", "not", "exist">>]
  ELSE IF includesAny(errorMessage,
       {<<"Cannot", "send", "payment", "to", "yourself">>})
  THEN [status |-> 400,
        message |-> <<"You", "cannot", "send", "a", "payment", "to", "yourself">>]
  ELSE IF includesAny(errorMessage,
       {<<"Payment", "amount", "must", "be", "greater", "than", "zero">>})
  THEN [status |-> 400,
        message |-> <<"Payment", "amount", "must", "be", "greater", "than", "zero">>]
  ELSE IF includesAny(errorMessage,
       {<<"Cannot", "process", "payment", "with", "status">>,
        <<"Cannot", "complete", "payment", "with", "status">>,
        <<"Cannot", "fail", "payment", "with", "status">>})
  THEN [status |-> 409,
        message |-> <<"Payment", "cannot", "be", "processed", "in", "its", "current", "status">>]
  ELSE IF includesAny(errorMessage,
       {<<"Can", "only", "refund", "completed", "payments">>})
  THEN [status |-> 409,
        message |-> <<"Only", "completed", "payments", "can", "be", "refunded">>]
  ELSE IF includesAny(errorMessage,
       {<<"Insufficient", "balance">>,
        <<"insufficient", "balance">>})
  THEN [status |-> 402,
        message |-> <<"Insufficient", "balance", "to", "complete", "this", "payment">>]
  ELSE IF includesAny(errorMessage,
       {<<"Currency", "code", "is", "required">>,
        <<"Unsupported", "currency", "code">>,
        <<"Currency", "code", "must", "be", "exactly", "3", "characters">>})
  THEN [status |-> 400,
        message |-> <<"Invalid", "currency", "code", "provided">>]
  ELSE IF includesAny(errorMessage,
       {<<"Amount", "is", "required">>,
        <<"Amount", "must", "be", "a", "positive", "number">>,
        <<"Amount", "cannot", "be", "zero", "or", "negative">>})
  THEN [status |-> 400,
        message |-> <<"Invalid", "payment", "amount", "provided">>]
  ELSE IF includesAny(errorMessage,
       {<<"Transaction", "ID", "is", "required">>,
        <<"Transaction", "ID", "cannot", "be", "empty">>,
        <<"Transaction", "ID", "cannot", "exceed">>})
  THEN [status |-> 400,
        message |-> <<"Invalid", "transaction", "ID", "provided">>]
  ELSE IF includesAny(errorMessage,
       {<<"Payment", "description", "is", "required">>,
        <<"Payment", "description", "cannot", "exceed">>})
  THEN [status |-> 400,
        message |-> <<"Invalid", "payment", "description", "provided">>]
  ELSE IF includesAny(errorMessage,
       {<<"Payment", "with", "this", "ID", "already", "exists">>})
  THEN [status |-> 409,
        message |-> <<"A", "payment", "with", "this", "transaction", "ID", "already", "exists">>]
  ELSE IF includesAny(errorMessage,
       {<<"Failed", "to", "communicate", "with", "user", "service">>,
        <<"Service", "communication", "error">>,
        <<"User", "service", "error">>})
  THEN [status |-> 503,
        message |-> <<"Payment", "service", "is", "temporarily", "unavailable", ".", "Please", "try", "again", "later">>]
  ELSE IF includesAny(errorMessage,
       {<<"Failed", "to", "save">>,
        <<"Failed", "to", "update">>,
        <<"Failed", "to", "delete">>})
  THEN [status |-> 500,
        message |-> <<"An", "error", "occurred", "while", "processing", "your", "payment", "request">>]
  ELSE IF includesAny(errorMessage,
       {<<"Transfer", "failed">>,
        <<"Refund", "failed">>})
  THEN [status |-> 500,
        message |-> <<"Payment", "processing", "failed", ".", "Please", "try", "again">>]
  ELSE IF includesAny(errorMessage,
       {<<"Payment", "creation", "failed">>})
  THEN [status |-> 400,
        message |-> <<"Unable", "to", "create", "payment", ".", "Please", "check", "your", "input", "and", "try", "again">>]
  ELSE [status |-> 400, message |-> errorMessage]

\* PaymentExceptionFilter.catch: an HttpException keeps its own status and
\* message, any other Error is mapped by its message.
PaymentExceptionFilter_catch(exception) ==
  IF exception.isHttp
  THEN [status |-> exception.status, message |-> exception.message]
  ELSE mapDomainErrorToHttp(exception.message)

\* --------------------------------------------------------------- SpecSame
\* Two payments of alice to bob are saved and PENDING, and alice's balance
\* does not cover both; the two handlers take ProcessPayment requests, never
\* both for the same payment at a time.  arg records the balance alice
\* started with.
SamePayIds == {"PAY_1", "PAY_2"}

InitSame ==
  /\ \E amounts \in [SamePayIds -> 1..MaxPaymentCents] :
       /\ db = [t \in SamePayIds |-> SavedPayment(t, amounts[t])]
       /\ \E a \in 0..(amounts["PAY_1"] + amounts["PAY_2"] - 1),
             b \in 0..MaxAmountCents :
            /\ userDb = [u \in Users |-> IF u = "alice" THEN a ELSE b]
            /\ arg = [fn |-> "sameSender", senderBalance |-> a]
  /\ clock = 1
  /\ pc = [p \in Procs |-> "idle"]
  /\ inv = [p \in Procs |-> NoInv]
  /\ moved = [t \in SamePayIds |-> 0]
  /\ okReplies = [t \in SamePayIds |-> 0]
  /\ reversed = [t \in SamePayIds |-> 0]
  /\ overlap = [t \in SamePayIds |-> FALSE]
  /\ ent = NoPay
  /\ entLast = [op |-> "none", reason |-> <<>>, ok |-> FALSE, before |-> NoPay]
  /\ ret = NoRet

NextSame ==
  \/ \E p \in Procs, tid \in SamePayIds :
       /\ \A q \in Procs \ {p} : ~InFlight(q, tid)
       /\ PP_FindById(p, tid)
  \/ \E p \in Procs : PP_Update1(p, "stored")
  \/ \E p \in Procs : PP_GetSender(p)
  \/ \E p \in Procs : PP_GetReceiver(p)
  \/ \E p \in Procs : PP_UpdateFail(p, "stored")
  \/ \E p \in Procs : PP_Transfer(p)
  \/ \E p \in Procs : PP_UpdateComplete(p, "stored")
  \/ \E p \in Procs : PP_UpdateCatch(p, "stored")
  \/ \E p \in Procs : Reset(p)

SpecSame == InitSame /\ [][NextSame]_vars

\* --------------------------------------------------------------- SpecAuth
\* One handler serves the controller's five routes, one request after the
\* other, each request under the token of alice, bob or carol; alice's
\* payment to bob is saved, and it is the one processed and refunded.
InitAuth ==
  /\ \E a \in 1..MaxPaymentCents :
       db = [t \in PayIds |-> SavedPayment(t, a)]
  /\ userDb \in [Users -> {0, MaxAmountCents}]
  /\ clock = 1
  /\ pc = [p \in Procs |-> "idle"]
  /\ inv = [p \in Procs |-> NoInv]
  /\ moved = [t \in PayIds |-> 0]
  /\ okReplies = [t \in PayIds |-> 0]
  /\ reversed = [t \in PayIds |-> 0]
  /\ overlap = [t \in PayIds |-> FALSE]
  /\ ent = NoPay
  /\ entLast = [op |-> "none", reason |-> <<>>, ok |-> FALSE, before |-> NoPay]
  /\ arg \in {[fn |-> "auth", currentUserId |-> u] : u \in SendUsers}
  /\ ret = NoRet

NextAuth ==
  \/ \E u \in SendUsers : CT_Authenticate(u)
  \/ \E p \in Payers, fromUserId \in SendUsers, toUserId \in SendUsers :
       CT_SendPayment(p, fromUserId, toUserId)
  \/ \E p \in Payers : SP_GetReceiver(p)
  \/ \E p \in Payers : SP_Save(p)
  \/ \E p \in Payers, tid \in GeneratedIds \cup {UnknownId} : CT_GetPaymentById(p, tid)
  \/ \E p \in Payers, userId \in SendUsers \cup PaddedIds :
       CT_GetUserPaymentHistory(p, userId)
  \/ \E p \in Payers, tid \in PayIds \cup {UnknownId} : CT_ProcessPayment(p, tid)
  \/ \E p \in Payers : CT_ProcessExecute(p)
  \/ \E p \in Payers : PP_Update1(p, "stored")
  \/ \E p \in Payers : PP_GetSender(p)
  \/ \E p \in Payers : PP_GetReceiver(p)
  \/ \E p \in Payers : PP_UpdateFail(p, "stored")
  \/ \E p \in Payers : PP_Transfer(p)
  \/ \E p \in Payers : PP_UpdateComplete(p, "stored")
  \/ \E p \in Payers : PP_UpdateCatch(p, "stored")
  \/ \E p \in Payers, tid \in PayIds \cup {UnknownId} : CT_RefundPayment(p, tid)
  \/ \E p \in Payers : CT_RefundExecute(p)
  \/ \E p \in Payers : RF_GetSender(p)
  \/ \E p \in Payers : RF_GetReceiver(p)
  \/ \E p \in Payers : RF_Transfer(p)
  \/ \E p \in Payers : RF_Update(p, "stored")
  \/ \E p \in Payers : Reset(p)

SpecAuth == InitAuth /\ [][NextAuth]_vars

\* --------------------------------------------------------------- SpecRead
\* The two handlers read a store that holds up to three payments, saved at
\* any times up to MaxClock: alice's payment to bob still pending, bob's to
\* alice completed, alice's to carol failed, and carol's to bob refunded
\* (carol's account was deleted since).
HistoryIds == GeneratedIds \cup {"PAY_3"}
StoredKinds ==
  {[fromUserId |-> "alice", toUserId |-> "bob", status |-> "PENDING"],
   [fromUserId |-> "bob", toUserId |-> "alice", status |-> "COMPLETED"],
   [fromUserId |-> "alice", toUserId |-> NoAccountId, status |-> "FAILED"],
   [fromUserId |-> NoAccountId, toUserId |-> "bob", status |-> "REFUNDED"]}
StoredPayment(id, kind, at) ==
  [id |-> id, fromUserId |-> kind.fromUserId, toUserId |-> kind.toUserId,
   amountCents |-> MaxPaymentCents, currencyCode |-> <<"U", "S", "D">>,
   status |-> kind.status, description |-> <<"x">>,
   createdAt |-> at,
   processedAt |-> IF kind.status = "PENDING" THEN Null ELSE at]
Stores ==
  UNION {[S -> StoredKinds \X (1..MaxClock)] : S \in SUBSET HistoryIds}

InitRead ==
  /\ \E f \in Stores :
       db = [t \in DOMAIN f |-> StoredPayment(t, f[t][1], f[t][2])]
  /\ userDb = [u \in Users |-> 0]
  /\ clock = MaxClock
  /\ pc = [p \in Procs |-> "idle"]
  /\ inv = [p \in Procs |-> NoInv]
  /\ moved = [t \in PayIds |-> 0]
  /\ okReplies = [t \in PayIds |-> 0]
  /\ reversed = [t \in PayIds |-> 0]
  /\ overlap = [t \in PayIds |-> FALSE]
  /\ ent = NoPay
  /\ entLast = [op |-> "none", reason |-> <<>>, ok |-> FALSE, before |-> NoPay]
  /\ arg = NoArg
  /\ ret = NoRet

NextRead ==
  \/ \E p \in Procs, tid \in HistoryIds \cup {UnknownId} : GP_FindById(p, tid)
  \/ \E p \in Senders, userId \in SendUsers \cup PaddedIds \cup BlankIds :
       UH_FindByUserId(p, userId)
  \/ \E p \in Procs : Reset(p)

SpecRead == InitRead /\ [][NextRead]_vars

\* -------------------------------------------------------------- SpecValue
\* A pure function applied once to an input drawn from a bounded set.
\* Amount.create gets numbers in halves around zero and around the maximum;
\* createNew gets every pair of plain and padded user ids.
AmountInputs ==
  (-4..4) \cup ((2 * AmountMaximum - 3)..(2 * AmountMaximum + 4))
AmountArgs == [fn : {"Amount.create"}, n : AmountInputs]
CreateNewArgs ==
  [fn : {"createNew"}, fromUserId : Users \cup PaddedIds,
   toUserId : Users \cup PaddedIds, amountCents : 0..MaxPaymentCents,
   description : Descriptions]

\* Currency.create gets every string of blanks and letters of either case up
\* to MaxCodeLen characters: the variants of USD and EUR, other three-letter
\* codes, and codes of every other length.
CodeChars == {" ", "u", "S", "d", "E", "r"}
RECURSIVE CodesUpTo(_)
CodesUpTo(n) ==
  IF n = 0 THEN {<<>>}
  ELSE LET S == CodesUpTo(n - 1)
       IN S \cup {Append(s, c) : s \in {t \in S : Len(t) = n - 1}, c \in CodeChars}
CurrencyArgs == [fn : {"Currency.create"}, code : CodesUpTo(MaxCodeLen)]

\* TransactionId.create gets ids of 0, 1, 49, 50 and 51 non-blank characters
\* with up to MaxIdPad blanks before and after; generate takes no input.
Blanks(n) == [i \in 1..n |-> " "]
IdBody(n) == [i \in 1..n |-> "x"]
IdLengths ==
  {0, 1, TransactionIdMaxLen - 1, TransactionIdMaxLen, TransactionIdMaxLen + 1}
IdInputs ==
  {Blanks(l) \o IdBody(n) \o Blanks(t) :
     l \in 0..MaxIdPad, n \in IdLengths, t \in 0..MaxIdPad}
TransactionIdArgs ==
  [fn : {"TransactionId.create"}, value : IdInputs]
    \cup {[fn |-> "TransactionId.generate"]}

V_AmountCreate ==
  /\ arg.fn = "Amount.create"
  /\ ret = NoRet
  /\ ret' = Amount_create(AmountMaximum, arg.n)
  /\ UNCHANGED <<db, userDb, clock, pc, inv, moved, okReplies, reversed, overlap, ent, entLast, arg>>

V_CreateNew ==
  /\ arg.fn = "createNew"
  /\ ret = NoRet
  /\ ret' = createNew(arg.fromUserId, arg.toUserId, arg.amountCents,
                      <<"U", "S", "D">>, arg.description, "PAY_2", clock)
  /\ UNCHANGED <<db, userDb, clock, pc, inv, moved, okReplies, reversed, overlap, ent, entLast, arg>>

\* PaymentExceptionFilter.catch(exception).
V_FilterCatch ==
  /\ arg.fn = "catch"
  /\ ret = NoRet
  /\ ret' = PaymentExceptionFilter_catch(arg.exception)
  /\ UNCHANGED <<db, userDb, clock, pc, inv, moved, okReplies, reversed, overlap, ent, entLast, arg>>

\* Currency.create(code), and then Currency.create on the code of the
\* Currency it returned.
V_CurrencyCreate ==
  /\ arg.fn = "Currency.create"
  /\ ret = NoRet
  /\ ret' = [first |-> CurrencyCreate(arg.code), second |-> NoRet]
  /\ UNCHANGED <<db, userDb, clock, pc, inv, moved, okReplies, reversed, overlap, ent, entLast, arg>>

V_CurrencyCreateAgain ==
  /\ arg.fn = "Currency.create"
  /\ ret # NoRet
  /\ ret.first.ok
  /\ ret.second = NoRet
  /\ ret' = [ret EXCEPT !.second = CurrencyCreate(ret.first.code)]
  /\ UNCHANGED <<db, userDb, clock, pc, inv, moved, okReplies, reversed, overlap, ent, entLast, arg>>

V_TransactionIdCreate ==
  /\ arg.fn = "TransactionId.create"
  /\ ret = NoRet
  /\ ret' = TransactionId_create(arg.value)
  /\ UNCHANGED <<db, userDb, clock, pc, inv, moved, okReplies, reversed, overlap, ent, entLast, arg>>

\* TransactionId.generate(), and then TransactionId.create on the value of
\* the id generated.
V_Generate ==
  /\ arg.fn = "TransactionId.generate"
  /\ ret = NoRet
  /\ \E uuid \in randomUUID :
       ret' = [ok |-> TRUE, value |-> generate(uuid), parsed |-> NoRet]
  /\ UNCHANGED <<db, userDb, clock, pc, inv, moved, okReplies, reversed, overlap, ent, entLast, arg>>

V_ParseGenerated ==
  /\ arg.fn = "TransactionId.generate"
  /\ ret # NoRet
  /\ ret.parsed = NoRet
  /\ ret' = [ret EXCEPT !.parsed = TransactionId_create(ret.value)]
  /\ UNCHANGED <<db, userDb, clock, pc, inv, moved, okReplies, reversed, overlap, ent, entLast, arg>>

\* The Errors the use cases throw (payment.entity.ts, processPayment.ts,
\* part_008, app.module.ts) and the messages of the HttpExceptions of
\* UserServiceClient, as the catch blocks of SendPayment and RefundPayment
\* rethrow them; each with the category it belongs to.
DomainErrors ==
  {[kind |-> "userNotFound",
    message |-> <<"Sender", "user", "not", "found">>],
   [kind |-> "userNotFound",
    message |-> <<"Receiver", "user", "not", "found">>],
   [kind |-> "userNotFound",
    message |-> <<"Original", "sender", "user", "not", "found">>],
   [kind |-> "userNotFound",
    message |-> <<"Original", "receiver", "user", "not", "found">>],
   [kind |-> "paymentNotFound",
    message |-> <<"Payment", "not", "found">>],
   [kind |-> "illegalTransition",
    message |-> <<"Cannot", "process", "payment", "with", "status", ":", "COMPLETED">>],
   [kind |-> "illegalTransition",
    message |-> <<"Cannot", "complete", "payment", "with", "status", ":", "PENDING">>],
   [kind |-> "illegalTransition",
    message |-> <<"Cannot", "fail", "payment", "with", "status", ":", "REFUNDED">>],
   [kind |-> "refundNotCompleted",
    message |-> <<"Can", "only", "refund", "completed", "payments">>],
   [kind |-> "insufficientBalance",
    message |-> <<"Insufficient", "balance">>],
   [kind |-> "insufficientBalance",
    message |-> <<"Refund", "failed", ":", "Receiver", "has", "insufficient", "balance", ".", "Required", ":", "1.00", ",", "Available", ":", "0.00">>],
   [kind |-> "serviceCommunication",
    message |-> <<"Failed", "to", "communicate", "with", "user", "service", ":", "fetch", "failed">>],
   [kind |-> "serviceCommunication",
    message |-> <<"User", "service", "error", ":", "Bad", "Gateway">>],
   [kind |-> "serviceCommunication",
    message |-> <<"Service", "communication", "error", ":", "fetch", "failed">>]}

\* No prefix, the prefix of SendPaymentUseCase's catch block, and that of
\* RefundPaymentUseCase's.
ErrorPrefixes ==
  {<<>>, <<"Payment", "creation", "failed", ":">>, <<"Refund", "failed", ":">>}

\* The exceptions the filter is given: the domain errors under every
\* prefix, and the controller's ForbiddenException.
FilterArgs ==
  {[fn |-> "catch", kind |-> e.kind,
    exception |-> [isHttp |-> FALSE, status |-> 0, message |-> prefix \o e.message]] :
     e \in DomainErrors, prefix \in ErrorPrefixes}
  \cup
  {[fn |-> "catch", kind |-> "forbidden",
    exception |-> [isHttp |-> TRUE, status |-> 403,
                   message |-> <<"You", "can", "only", "process", "payments", "you", "sent">>]]}

InitValue ==
  /\ db = [t \in PayIds |-> NoPay]
  /\ userDb = [u \in Users |-> 0]
  /\ clock = 1
  /\ pc = [p \in Procs |-> "idle"]
  /\ inv = [p \in Procs |-> NoInv]
  /\ moved = [t \in PayIds |-> 0]
  /\ okReplies = [t \in PayIds |-> 0]
  /\ reversed = [t \in PayIds |-> 0]
  /\ overlap = [t \in PayIds |-> FALSE]
  /\ ent = NoPay
  /\ entLast = [op |-> "none", reason |-> <<>>, ok |-> FALSE, before |-> NoPay]
  /\ arg \in AmountArgs \cup CreateNewArgs \cup CurrencyArgs \cup TransactionIdArgs
             \cup FilterArgs
  /\ ret = NoRet

NextValue ==
  \/ V_AmountCreate
  \/ V_CreateNew
  \/ V_CurrencyCreate
  \/ V_CurrencyCreateAgain
  \/ V_TransactionIdCreate
  \/ V_Generate
  \/ V_ParseGenerated
  \/ V_FilterCatch

SpecValue == InitValue /\ [][NextValue]_vars

\* ================================================================ claims
\* A reason with at least one character that is not a blank.
NonBlank(reason) == \E i \in 1..Len(reason) : reason[i] # " "

\* The last attempt on the Payment under test left status and processedAt
\* as they were.
EntUntouched ==
  /\ ent.status = entLast.before.status
  /\ ent.processedAt = entLast.before.processedAt

\* The last attempt was `op` from status `from`, with a usable reason when
\* it was fail(reason).
EntTried(from, op) ==
  /\ entLast.op = op
  /\ entLast.before.status = from
  /\ (op = "fail" => NonBlank(entLast.reason))

\* The rows PENDING, PROCESSING and COMPLETED of a transition table hold of
\* the last attempt: a listed transition succeeds and reaches its target, no
\* other transition succeeds, and a rejected one changes nothing.
TableHolds(table) ==
  (entLast.op # "none" /\ entLast.before.status \in {"PENDING", "PROCESSING", "COMPLETED"}) =>
    /\ entLast.ok => <<entLast.before.status, entLast.op, ent.status>> \in table
    /\ \A row \in table : EntTried(row[1], row[2]) => entLast.ok
    /\ ~entLast.ok => EntUntouched

\* C2 as stated: from PENDING only process() succeeds; from PROCESSING only
\* complete() and fail(reason); from COMPLETED only refund(); a rejected
\* transition leaves status and processedAt unchanged.
C2_TableAsStated ==
  TableHolds({<<"PENDING", "process", "PROCESSING">>,
              <<"PROCESSING", "complete", "COMPLETED">>,
              <<"PROCESSING", "fail", "FAILED">>,
              <<"COMPLETED", "refund", "REFUNDED">>})

\* C2 amended: from PENDING process() succeeds (to PROCESSING) and so does
\* fail(reason) with a non-blank reason (to FAILED), complete() and refund()
\* are rejected; from PROCESSING only complete() and fail(reason) succeed;
\* from COMPLETED only refund(); a rejected transition leaves status and
\* processedAt unchanged.
C2_TransitionTable ==
  TableHolds({<<"PENDING", "process", "PROCESSING">>,
              <<"PENDING", "fail", "FAILED">>,
              <<"PROCESSING", "complete", "COMPLETED">>,
              <<"PROCESSING", "fail", "FAILED">>,
              <<"COMPLETED", "refund", "REFUNDED">>})

\* C2 witness: a payment failed straight from PENDING.
C2_Witness ==
  /\ entLast.op = "fail"
  /\ entLast.before.status = "PENDING"
  /\ entLast.ok
  /\ ent.status = "FAILED"

\* C3: fail(reason) succeeds exactly when the status is neither COMPLETED
\* nor REFUNDED and the reason has a non-blank character; a successful
\* fail() sets the status to FAILED, a rejected one leaves status and
\* processedAt unchanged.
C3_FailGuard ==
  entLast.op = "fail" =>
    /\ entLast.ok <=> (entLast.before.status \notin {"COMPLETED", "REFUNDED"}
                       /\ NonBlank(entLast.reason))
    /\ entLast.ok => ent.status = "FAILED"
    /\ ~entLast.ok => EntUntouched

\* C3 witness: a whitespace-only reason rejected on a PROCESSING payment.
C3_Witness ==
  /\ entLast.op = "fail"
  /\ entLast.before.status = "PROCESSING"
  /\ entLast.reason # <<>>
  /\ ~NonBlank(entLast.reason)
  /\ ~entLast.ok

\* C4 as stated: FAILED and REFUNDED are terminal, no transition attempted
\* on a FAILED or REFUNDED payment succeeds and status and processedAt stay
\* as they are.
C4_TerminalStates ==
  (entLast.op # "none" /\ entLast.before.status \in {"FAILED", "REFUNDED"}) =>
    /\ ~entLast.ok
    /\ EntUntouched

\* C1 as stated: whatever the interleaving of ProcessPayment invocations on
\* one payment id, the account service applies the sender-to-receiver
\* transfer of that payment at most once.
C1_AtMostOneTransfer ==
  \A t \in PayIds : moved[t] <= 1

\* A ProcessPayment invocation (running or ended).
IsProcess(p) == inv[p].op = "process"
Ended(p) == pc[p] = "done"

\* The invocation ended by returning a failure response: status FAILED, and
\* the FAILED payment is what it last persisted.
ReturnedFailure(p) ==
  /\ inv[p].outcome = "returned"
  /\ inv[p].resp.status = "FAILED"
  /\ inv[p].resp.senderNewBalance = <<>>
  /\ inv[p].lastStatus = "FAILED"

\* C5 as stated: a ProcessPayment invocation on a PENDING payment whose
\* transferBalance call succeeded ends with COMPLETED and a processedAt
\* persisted, both balances moved by exactly the amount, and a returned
\* response with status COMPLETED carrying both new balances.
C5_SuccessPath ==
  \A p \in Procs :
    (IsProcess(p) /\ Ended(p) /\ inv[p].gotOk) =>
      /\ inv[p].lastStatus = "COMPLETED"
      /\ inv[p].lastProcessedAt # Null
      /\ inv[p].senderNewBalance = inv[p].preSender - inv[p].pay.amountCents
      /\ inv[p].receiverNewBalance = inv[p].preReceiver + inv[p].pay.amountCents
      /\ inv[p].outcome = "returned"
      /\ inv[p].resp.status = "COMPLETED"
      /\ inv[p].resp.senderNewBalance = <<0, inv[p].senderNewBalance>>
      /\ inv[p].resp.receiverNewBalance = <<0, inv[p].receiverNewBalance>>

\* C6: a ProcessPayment invocation that read a sender balance below the
\* amount never calls transferBalance and moves no balance; it fails the
\* payment and, when it ends, has persisted FAILED and returned a failure
\* response instead of throwing.
C6_InsufficientFunds ==
  \A p \in Procs :
    (/\ IsProcess(p)
     /\ inv[p].sender >= 0
     /\ inv[p].sender < inv[p].pay.amountCents
     /\ pc[p] # "pp_getReceiver") =>
      /\ inv[p].calls = 0
      /\ inv[p].applied = 0
      /\ inv[p].pay.status = "FAILED"
      /\ Ended(p) => ReturnedFailure(p)

\* C6 witness: an invocation ended on the insufficient-balance branch.
C6_Witness ==
  \E p \in Procs :
    /\ IsProcess(p) /\ Ended(p)
    /\ inv[p].message = "InsufficientBalance"
    /\ inv[p].sender < inv[p].pay.amountCents
    /\ db[inv[p].tid].status = "FAILED"

\* C7: a ProcessPayment invocation whose sender or receiver lookup answered
\* not-found never calls transferBalance; it fails the payment and, when it
\* ends, has persisted FAILED and returned a failure response that names the
\* missing party.
C7_MissingAccount ==
  \A p \in Procs :
    (IsProcess(p) /\ (inv[p].sender = NotFound \/ inv[p].receiver = NotFound)) =>
      /\ inv[p].calls = 0
      /\ inv[p].pay.status = "FAILED"
      /\ inv[p].message = (IF inv[p].sender = NotFound
                           THEN "SenderNotFound" ELSE "ReceiverNotFound")
      /\ Ended(p) => ReturnedFailure(p)

\* C7 witness: an invocation ended because the receiver's account was gone.
C7_Witness ==
  \E p \in Procs :
    /\ IsProcess(p) /\ Ended(p)
    /\ inv[p].receiver = NotFound
    /\ userDb[inv[p].pay.toUserId] = NotFound
    /\ inv[p].outcome = "returned"

\* C8: a ProcessPayment invocation in which getUserById or transferBalance
\* threw never applies complete(); it fails the payment with a processedAt
\* and, when it ends, has persisted that and returned a failure response
\* carrying the error, not thrown.
C8_ServiceError ==
  \A p \in Procs :
    (IsProcess(p) /\ inv[p].svcErr) =>
      /\ ~inv[p].completed
      /\ inv[p].pay.status = "FAILED"
      /\ inv[p].pay.processedAt # Null
      /\ Ended(p) =>
           /\ ReturnedFailure(p)
           /\ inv[p].lastProcessedAt # Null
           /\ inv[p].resp.processedAt # Null
           /\ inv[p].message = "PaymentFailed"
           /\ inv[p].detail \in {"getUserById", "transferBalance"}

\* C8 witness: an invocation ended after transferBalance threw.
C8_Witness ==
  \E p \in Procs :
    /\ IsProcess(p) /\ Ended(p)
    /\ inv[p].svcErr
    /\ inv[p].calls = 1
    /\ inv[p].outcome = "returned"

\* C9: a payment persisted as COMPLETED has had a successful transferBalance
\* response, and the invocation that persisted COMPLETED had received one
\* before.
C9_CompletedAfterTransfer ==
  /\ \A t \in PayIds : db[t].status = "COMPLETED" => okReplies[t] >= 1
  /\ \A p \in Procs :
       (IsProcess(p) /\ inv[p].lastStatus = "COMPLETED") =>
         (inv[p].gotOk /\ inv[p].applied = 1)

\* C9 witness: a payment is persisted as COMPLETED.
C9_Witness ==
  \E t \in PayIds : db[t].status = "COMPLETED" /\ moved[t] = 1

\* C10: a ProcessPayment invocation that finds its payment persisted in any
\* status but PENDING ends at once with a state-transition error, having
\* made no account-service call and no repository update; and as long as no
\* two ProcessPayment invocations on a payment overlap, its transfer is
\* applied at most once.
C10_SequentialRetry ==
  /\ \A p \in Procs :
       (IsProcess(p) /\ inv[p].read \in PaymentStatus \ {"PENDING"}) =>
         /\ Ended(p)
         /\ inv[p].outcome = "threw"
         /\ inv[p].message = "InvalidTransition"
         /\ inv[p].lookups = 0
         /\ inv[p].calls = 0
         /\ inv[p].applied = 0
         /\ inv[p].writes = 0
  /\ \A t \in PayIds : ~overlap[t] => moved[t] <= 1

\* C10 witness: ProcessPayment retried on a payment that was completed and
\* then refunded, with no overlap so far.
C10_Witness ==
  \E p \in Procs :
    /\ IsProcess(p)
    /\ inv[p].read = "REFUNDED"
    /\ ~overlap[inv[p].tid]
    /\ moved[inv[p].tid] = 1

\* A RefundPayment / SendPayment invocation (running or ended).
IsRefund(p) == inv[p].op = "refund"
IsSend(p) == inv[p].op = "send"

\* C11: a RefundPayment invocation on a COMPLETED payment of amount A that
\* found both accounts and the original receiver holding at least A goes on
\* to the reverse transfer; when that transfer returns, the original
\* receiver's balance has gone down by A, the original sender's has gone up
\* by A, and the invocation persists REFUNDED.  When a completed
\* ProcessPayment and a RefundPayment are all that moved money on the
\* payment, both balances are back at what they were before ProcessPayment.
C11_RefundRoundTrip ==
  /\ \A p \in Procs :
       IsRefund(p) =>
         /\ (/\ inv[p].read = "COMPLETED"
             /\ inv[p].sender >= 0
             /\ inv[p].receiver >= inv[p].pay.amountCents) =>
              \/ pc[p] \in {"rf_transfer", "rf_update"}
              \/ Ended(p) /\ inv[p].calls = 1
         /\ inv[p].gotOk =>
              /\ inv[p].read = "COMPLETED"
              /\ inv[p].preSender >= inv[p].pay.amountCents
              /\ inv[p].senderNewBalance = inv[p].preSender - inv[p].pay.amountCents
              /\ inv[p].receiverNewBalance = inv[p].preReceiver + inv[p].pay.amountCents
              /\ inv[p].pay.status = "REFUNDED"
              /\ Ended(p) => inv[p].lastStatus = "REFUNDED"
  /\ \A p \in Procs, q \in Procs, t \in PayIds :
       (/\ IsProcess(p) /\ Ended(p) /\ inv[p].gotOk /\ inv[p].tid = t
        /\ IsRefund(q) /\ inv[q].gotOk /\ inv[q].tid = t
        /\ moved[t] = 1 /\ reversed[t] = 1
        /\ \A u \in Users : userDb[u] # NotFound) =>
         /\ userDb[db[t].fromUserId] = inv[p].preSender
         /\ userDb[db[t].toUserId] = inv[p].preReceiver

\* C11 witness: a payment completed by one invocation (the sender paid a
\* positive amount) and refunded by the next, which has returned.
C11_Witness ==
  \E p \in Procs, q \in Procs :
    /\ IsProcess(p) /\ Ended(p) /\ inv[p].gotOk
    /\ IsRefund(q) /\ Ended(q) /\ inv[q].outcome = "returned"
    /\ inv[q].tid = inv[p].tid
    /\ db[inv[q].tid].status = "REFUNDED"
    /\ moved[inv[q].tid] = 1 /\ reversed[inv[q].tid] = 1
    /\ userDb[db[inv[q].tid].fromUserId] = inv[p].preSender

\* C12: a RefundPayment invocation that finds its payment persisted in any
\* status but COMPLETED ends at once with a state-transition error, having
\* made no account-service call and no repository update, so no balance and
\* no persisted field changes; a second refund of a REFUNDED payment is such
\* an invocation.
C12_RefundRejected ==
  \A p \in Procs :
    (IsRefund(p) /\ inv[p].read \in PaymentStatus \ {"COMPLETED"}) =>
      /\ Ended(p)
      /\ inv[p].outcome = "threw"
      /\ inv[p].message = "InvalidTransition"
      /\ inv[p].lookups = 0
      /\ inv[p].calls = 0
      /\ inv[p].applied = 0
      /\ inv[p].writes = 0

\* C12 witness: RefundPayment tried again on a payment refunded once.
C12_Witness ==
  \E p \in Procs :
    /\ IsRefund(p)
    /\ inv[p].read = "REFUNDED"
    /\ reversed[inv[p].tid] = 1
    /\ db[inv[p].tid].status = "REFUNDED"

C14_AtMostOneReversal ==
  \A t \in PayIds : reversed[t] <= 1

\* C15: a SendPayment invocation that returned has saved exactly one record,
\* which is persisted with status PENDING and processedAt null, and has made
\* no transferBalance call; and every step that changes a balance is the
\* transferBalance call of a ProcessPayment or RefundPayment invocation.
C15_SendOnlyCreates ==
  /\ [](\A p \in Procs :
         (IsSend(p) /\ inv[p].outcome = "returned") =>
           /\ inv[p].writes = 1
           /\ inv[p].tid \in DOMAIN db
           /\ db[inv[p].tid].status = "PENDING"
           /\ db[inv[p].tid].processedAt = Null
           /\ inv[p].resp.status = "PENDING"
           /\ inv[p].calls = 0
           /\ inv[p].applied = 0)
  /\ [][userDb' # userDb =>
          \E p \in Procs :
            /\ inv[p].op \in {"process", "refund"}
            /\ pc[p] \in {"pp_transfer", "rf_transfer"}
            /\ pc'[p] # pc[p]]_vars

\* C15 witness: SendPayment has returned and its record is in the store,
\* beside the payment saved before.
C15_Witness ==
  \E p \in Procs :
    /\ IsSend(p) /\ inv[p].outcome = "returned"
    /\ inv[p].tid \in DOMAIN db \ PayIds
    /\ db[inv[p].tid].fromUserId = inv[p].req.fromUserId

\* The requests C16 lists as failing: an amount that is no integer in
\* 0..maximum, an unsupported currency, sender equal to receiver, a zero
\* amount, a description longer than the limit.
SendRejects(req) ==
  \/ req.amountCents % 2 # 0
  \/ req.amountCents < 0
  \/ req.amountCents > 2 * MaxAmountCents
  \/ toUpperCase(Trim(req.currencyCode)) \notin SUPPORTED_CURRENCIES
  \/ trimId(req.fromUserId) = trimId(req.toUserId)
  \/ req.amountCents = 0
  \/ Len(req.description) > MaxDescriptionLen

\* C16: a SendPayment invocation whose sender or receiver account is
\* missing, or whose request is one of those SendRejects lists, ends by
\* throwing; and every SendPayment invocation that ends by throwing has
\* written nothing to the payment repository.
C16_FailedSendWritesNothing ==
  \A p \in Procs :
    IsSend(p) =>
      /\ (inv[p].sender = NotFound \/ inv[p].receiver = NotFound) =>
           (Ended(p) /\ inv[p].outcome = "threw")
      /\ (inv[p].receiver >= 0 /\ SendRejects(inv[p].req)) =>
           /\ Ended(p)
           /\ inv[p].outcome = "threw"
           /\ inv[p].detail \in {"Amount", "Currency", "SelfPayment",
                                 "ZeroAmount", "DescriptionTooLong"}
      /\ (Ended(p) /\ inv[p].outcome = "threw") =>
           /\ inv[p].message = "CreationFailed"
           /\ inv[p].writes = 0

\* C16 witness: a SendPayment whose generated id collided with a saved
\* payment has ended by throwing.
C16_Witness ==
  \E p \in Procs :
    /\ IsSend(p) /\ Ended(p)
    /\ inv[p].outcome = "threw"
    /\ inv[p].detail = "Duplicate"
    /\ inv[p].pay.id \in PayIds

\* C17: a payment that createNew returns has fromUserId different from
\* toUserId and an amount above zero; createNew fails whenever the sender
\* and the receiver given are the same, and whenever the amount is zero.
C17_NoSelfNoZero ==
  (arg.fn = "createNew" /\ ret # NoRet) =>
    /\ ret.ok => (ret.pay.fromUserId # ret.pay.toUserId /\ ret.pay.amountCents > 0)
    /\ arg.fromUserId = arg.toUserId => ~ret.ok
    /\ arg.amountCents = 0 => ~ret.ok

\* C17 witness: createNew has rejected a payment of a positive amount from a
\* user to the same user.
C17_Witness ==
  /\ arg.fn = "createNew" /\ ret # NoRet
  /\ arg.fromUserId = arg.toUserId
  /\ arg.amountCents > 0
  /\ ~ret.ok

\* The fields of a persisted payment that are written once.
Immutable(doc) ==
  <<doc.id, doc.fromUserId, doc.toUserId, doc.amountCents, doc.currencyCode,
    doc.description, doc.createdAt>>

\* C18: no step removes a payment from the repository, and no step changes
\* a saved payment's id, fromUserId, toUserId, amount, currency, description
\* or createdAt.
C18_AuditTrail ==
  [][\A t \in DOMAIN db :
       /\ t \in DOMAIN db'
       /\ Immutable(db'[t]) = Immutable(db[t])]_vars

\* C18 witness: the payment saved first has been rewritten up to REFUNDED,
\* and a second payment has been saved beside it.
C18_Witness ==
  /\ db["PAY_1"].status = "REFUNDED"
  /\ db["PAY_1"].processedAt # Null
  /\ "PAY_2" \in DOMAIN db

\* The sum of all account balances.
RECURSIVE SumOf(_, _)
SumOf(udb, S) ==
  IF S = {} THEN 0
  ELSE LET u == CHOOSE x \in S : TRUE
       IN udb[u] + SumOf(udb, S \ {u})
Total(udb) == SumOf(udb, DOMAIN udb)

C20_AmountRange ==
  (arg.fn = "Amount.create" /\ ret # NoRet) =>
    /\ ret.ok <=> (arg.n % 2 = 0 /\ 0 <= arg.n /\ arg.n <= 2 * AmountMaximum)
    /\ ret.ok => 2 * ret.valueCents = arg.n

\* C20 witness: Amount.create has rejected 1000000000.
C20_Witness ==
  /\ arg.fn = "Amount.create" /\ ret # NoRet
  /\ arg.n = 2 * (AmountMaximum + 1)
  /\ ~ret.ok

\* C21: Currency.create succeeds exactly when the trimmed, upper-cased code is
\* USD, EUR or CNY, and then returns that normalized code; it fails for any
\* other code of three characters and for any code whose normalized length
\* is not three; applied to the code it returned it returns the same code.
C21_CurrencyNormalized ==
  (arg.fn = "Currency.create" /\ ret # NoRet) =>
    LET normalized == toUpperCase(Trim(arg.code))
        supported == normalized \in
          {<<"U", "S", "D">>, <<"E", "U", "R">>, <<"C", "N", "Y">>}
    IN /\ ret.first.ok <=> supported
       /\ ret.first.ok => ret.first.code = normalized
       /\ Len(normalized) # 3 => ~ret.first.ok
       /\ ret.second # NoRet =>
            (ret.second.ok /\ ret.second.code = ret.first.code)

\* C21 witness: a lower-case, blank-padded code was accepted, and the code
\* returned was handed to Currency.create again.
C21_Witness ==
  /\ arg.fn = "Currency.create" /\ ret # NoRet
  /\ arg.code # toUpperCase(Trim(arg.code))
  /\ Len(arg.code) > 3
  /\ ret.first.ok
  /\ ret.second # NoRet

\* An id that generate() returned: it starts with PAY_.
HasPayPrefix(value) ==
  Len(value) >= 4 /\ SubSeq(value, 1, 4) = <<"P", "A", "Y", "_">>

\* generate() has returned, and create has been applied to what it returned.
GenerateRoundTrip ==
  (arg.fn = "TransactionId.generate" /\ ret # NoRet) =>
    /\ ret.ok
    /\ HasPayPrefix(ret.value)
    /\ ret.parsed # NoRet => (ret.parsed.ok /\ ret.parsed.value = ret.value)

\* C22 as stated: generate never fails and yields a PAY_ id that create
\* accepts unchanged; create fails on the empty input and on an input longer
\* than 50 characters, and succeeds on every other input.
C22_ParseAsStated ==
  /\ GenerateRoundTrip
  /\ (arg.fn = "TransactionId.create" /\ ret # NoRet) =>
       (~ret.ok <=> (Len(arg.value) = 0 \/ Len(arg.value) > 50))

\* C22 amended: generate never fails and yields a PAY_ id that create
\* accepts unchanged; create trims its input, fails when the trimmed value
\* is empty or longer than 50 characters, and otherwise succeeds with the
\* trimmed value.
C22_GenerateParse ==
  /\ GenerateRoundTrip
  /\ (arg.fn = "TransactionId.create" /\ ret # NoRet) =>
       /\ ~ret.ok <=> (Len(Trim(arg.value)) = 0 \/ Len(Trim(arg.value)) > 50)
       /\ ret.ok => ret.value = Trim(arg.value)

\* C22 witness: create has accepted an input of 51 characters, the last of
\* them a blank.
C22_Witness ==
  /\ arg.fn = "TransactionId.create" /\ ret # NoRet
  /\ Len(arg.value) = 51
  /\ ret.ok

IsHistory(p) == inv[p].op = "history"
IsGet(p) == inv[p].op = "get"
\* The invocation has ended with a response.
Returned(p) == pc[p] = "done" /\ inv[p].outcome = "returned"

\* C23: the history of U reports as totalPayments the number of persisted
\* payments U sent or received, as sentPayments the number U sent, as
\* receivedPayments the number U received, and the first is the sum of the
\* other two; each payment of U is in the list exactly once, and no other
\* payment is.
C23_HistoryCounts ==
  \A p \in Procs :
    (IsHistory(p) /\ Returned(p)) =>
      LET r == inv[p].resp
          U == r.userId
          sent == {t \in DOMAIN db : db[t].fromUserId = U}
          received == {t \in DOMAIN db : db[t].toUserId = U}
      IN /\ r.totalPayments = Cardinality(sent \cup received)
         /\ r.sentPayments = Cardinality(sent)
         /\ r.receivedPayments = Cardinality(received)
         /\ r.totalPayments = r.sentPayments + r.receivedPayments
         /\ \A t \in sent \cup received :
              Cardinality({i \in DOMAIN r.payments : r.payments[i].id = t}) = 1
         /\ \A i \in DOMAIN r.payments : r.payments[i].id \in sent \cup received

\* C23 witness: the history of a user who sent two payments and received
\* one, read from a store that holds nothing else.
C23_Witness ==
  \E p \in Procs :
    /\ IsHistory(p) /\ Returned(p)
    /\ inv[p].resp.sentPayments = 2
    /\ inv[p].resp.receivedPayments = 1
    /\ Len(inv[p].resp.payments) = 3

\* C24: the summaries of a history are ordered by createdAt, newest first;
\* the summary of a payment U sent is tagged SENT and names the receiver,
\* the summary of a payment U received is tagged RECEIVED and names the
\* sender.
C24_HistoryOrder ==
  \A p \in Procs :
    (IsHistory(p) /\ Returned(p)) =>
      LET U == inv[p].resp.userId
          list == inv[p].resp.payments
      IN /\ \A i \in DOMAIN list : \A j \in DOMAIN list :
              i < j => list[i].createdAt >= list[j].createdAt
         /\ \A i \in DOMAIN list :
              LET pay == db[list[i].id]
              IN /\ pay.fromUserId = U =>
                      (list[i].type = "SENT" /\ list[i].otherUserId = pay.toUserId)
                 /\ pay.toUserId = U =>
                      (list[i].type = "RECEIVED"
                         /\ list[i].otherUserId = pay.fromUserId)

\* C24 witness: a history that lists a payment received before a payment
\* sent at an earlier time.
C24_Witness ==
  \E p \in Procs :
    /\ IsHistory(p) /\ Returned(p)
    /\ LET list == inv[p].resp.payments
       IN /\ Len(list) >= 2
          /\ list[1].type = "RECEIVED"
          /\ list[2].type = "SENT"
          /\ list[1].createdAt > list[2].createdAt

\* What getPaymentById returns for a persisted payment.
ReadsAs(r, doc) ==
  /\ r.id = doc.id
  /\ r.fromUserId = doc.fromUserId
  /\ r.toUserId = doc.toUserId
  /\ r.amount = <<doc.amountCents \div 100, doc.amountCents % 100>>
  /\ r.currency = doc.currencyCode
  /\ r.status = doc.status
  /\ r.description = doc.description
  /\ r.createdAt = doc.createdAt
  /\ r.processedAt = doc.processedAt

\* C25: getPaymentById changes no persisted payment and no balance; it
\* returns the fields of the persisted payment, so two calls for the same
\* id with no write in between return the same values; for an id with no
\* persisted payment it fails with payment-not-found.
C25_PureRead ==
  /\ [](\A p \in Procs :
          (IsGet(p) /\ Ended(p)) =>
            /\ inv[p].tid \in DOMAIN db =>
                 (Returned(p) /\ ReadsAs(inv[p].resp, db[inv[p].tid]))
            /\ inv[p].tid \notin DOMAIN db =>
                 (inv[p].outcome = "threw" /\ inv[p].message = "PaymentNotFound")
            /\ \A q \in Procs :
                 (IsGet(q) /\ Ended(q) /\ inv[q].tid = inv[p].tid) =>
                   (inv[q].outcome = inv[p].outcome /\ inv[q].resp = inv[p].resp))
  /\ [][(\E p \in Procs : pc[p] = "idle" /\ pc'[p] = "done" /\ inv'[p].op = "get")
          => (db' = db /\ userDb' = userDb)]_vars

\* C25 witness: two calls for the same completed payment have returned.
C25_Witness ==
  /\ \A p \in Procs : IsGet(p) /\ Returned(p)
  /\ inv["h1"].tid = inv["h2"].tid
  /\ inv["h1"].resp.status = "COMPLETED"
  /\ inv["h1"].resp.processedAt # Null

\* How an invocation that ended names a payment: a response by its id
\* field, a thrown Error by the value its message interpolates.
NamesPayment(p) ==
  IF inv[p].outcome = "returned" THEN inv[p].resp.id = inv[p].tid
  ELSE inv[p].detail = inv[p].tid

\* C26: every ProcessPayment or RefundPayment invocation that ended in a
\* failure, returned or thrown, names the transaction id it was called for.
C26_FailureNamesPayment ==
  \A p \in Procs :
    ((IsProcess(p) \/ IsRefund(p)) /\ Ended(p)
       /\ inv[p].message \notin {"Completed", "Refunded"}) =>
      NamesPayment(p)

\* The edges of the state graph of spec 4.3.
StateGraph ==
  {<<"PENDING", "PROCESSING">>, <<"PROCESSING", "COMPLETED">>,
   <<"PROCESSING", "FAILED">>, <<"COMPLETED", "REFUNDED">>}

\* C27: every write that changes the persisted status of a payment follows
\* an edge of the state graph; so a persisted COMPLETED is never replaced by
\* PROCESSING or FAILED, and a persisted FAILED or REFUNDED by nothing else.
C27_PersistedStatusFollowsGraph ==
  [][\A t \in DOMAIN db :
       (t \in DOMAIN db' /\ db'[t].status # db[t].status) =>
         <<db[t].status, db'[t].status>> \in StateGraph]_vars

\* The ProcessPayment invocation of p has persisted PROCESSING: its first
\* update went through.
PersistedProcessing(p) == IsProcess(p) /\ inv[p].writes >= 1
\* The last status the invocation of p persisted is COMPLETED or FAILED.
PersistedTerminal(p) == inv[p].lastStatus \in {"COMPLETED", "FAILED"}

\* C28: a ProcessPayment invocation that has persisted PROCESSING goes on to
\* persist COMPLETED or FAILED, given that every call it waits for returns;
\* and none ends with PROCESSING as the last status it persisted.
C28_RunToTerminal ==
  /\ [](\A p \in Procs :
          (PersistedProcessing(p) /\ Ended(p)) =>
            (PersistedTerminal(p) /\ db[inv[p].tid].status # "PROCESSING"))
  /\ \A p \in Procs :
       PersistedProcessing(p) ~> (PersistedProcessing(p) /\ PersistedTerminal(p))

\* C29: a ProcessPayment invocation that persisted PROCESSING and did not
\* succeed ends by returning a failure response with status FAILED, with
\* FAILED persisted; it does not end by throwing.
C29_LateFailuresRecorded ==
  \A p \in Procs :
    (PersistedProcessing(p) /\ Ended(p) /\ inv[p].message # "Completed") =>
      /\ inv[p].outcome = "returned"
      /\ inv[p].resp.status = "FAILED"
      /\ inv[p].lastStatus = "FAILED"
      /\ db[inv[p].tid].status = "FAILED"

\* The sender and the receiver an invocation deals with: those of the
\* request for SendPayment, those of the payment loaded otherwise.
SenderOf(p) ==
  IF IsSend(p) THEN inv[p].req.fromUserId ELSE inv[p].pay.fromUserId
ReceiverOf(p) ==
  IF IsSend(p) THEN inv[p].req.toUserId ELSE inv[p].pay.toUserId

\* C30: at every point of an invocation of ProcessPayment, RefundPayment or
\* SendPayment there has been at most one lookup of the sender, then at most
\* one of the receiver, and no other; ProcessPayment and RefundPayment have
\* called transferBalance at most once, SendPayment never.
C30_NoRetry ==
  \A p \in Procs :
    (IsProcess(p) \/ IsRefund(p) \/ IsSend(p)) =>
      /\ inv[p].calls <= 1
      /\ IsSend(p) => inv[p].calls = 0
      /\ inv[p].lookups = Len(inv[p].lookedUp)
      /\ Len(inv[p].lookedUp) <= 2
      /\ Len(inv[p].lookedUp) >= 1 => inv[p].lookedUp[1] = SenderOf(p)
      /\ Len(inv[p].lookedUp) = 2 => inv[p].lookedUp[2] = ReceiverOf(p)

\* C30 witness: a ProcessPayment invocation has ended after both lookups and
\* a transferBalance call that threw.
C30_Witness ==
  \E p \in Procs :
    /\ IsProcess(p) /\ Ended(p)
    /\ inv[p].lookups = 2
    /\ inv[p].calls = 1
    /\ inv[p].svcErr

\* processedAt is null exactly in PENDING and PROCESSING.
StampedWhenDone(pay) ==
  (pay.processedAt = Null) <=> (pay.status \in {"PENDING", "PROCESSING"})

\* C31: every payment, be it the object under test, the copy an invocation
\* holds after any of its transitions, or a persisted document, has
\* processedAt null exactly when its status is PENDING or PROCESSING, and
\* non-null when it is COMPLETED, FAILED or REFUNDED.
C31_ProcessedAtMatchesStatus ==
  /\ ent.status # "NONE" => StampedWhenDone(ent)
  /\ \A p \in Procs : inv[p].pay.status # "NONE" => StampedWhenDone(inv[p].pay)
  /\ \A t \in DOMAIN db : db[t].status # "NONE" => StampedWhenDone(db[t])

\* C31 witness: a refunded payment is persisted, with the processedAt that
\* complete() gave it, while the other handler holds a copy it has failed.
C31_Witness ==
  /\ db["PAY_1"].status = "REFUNDED"
  /\ db["PAY_1"].processedAt # Null
  /\ \E p \in Procs : inv[p].pay.status = "FAILED" /\ inv[p].pay.processedAt # Null

\* C32: processedAt, once set, is never assigned again, and it is set only
\* by a successful complete() or fail(reason) on a payment that is PENDING
\* or PROCESSING.
C32_ProcessedAtOnce ==
  [][/\ ent.processedAt # Null => ent'.processedAt = ent.processedAt
     /\ ent'.processedAt # ent.processedAt =>
          /\ entLast'.op \in {"complete", "fail"}
          /\ entLast'.ok
          /\ ent.status \in {"PENDING", "PROCESSING"}]_vars

\* The invocation's transferBalance call was applied by the account service
\* and came back as an error.
LostReply(p) == inv[p].applied = 1 /\ inv[p].svcErr /\ ~inv[p].gotOk

\* C33: a ProcessPayment invocation whose transfer was applied but whose
\* transferBalance call returned an error ends by persisting FAILED and
\* returning the failure response; and an invocation of ProcessPayment or
\* RefundPayment that finds the payment persisted as FAILED is rejected at
\* once, before any call to the account service, so neither can move the
\* money back.
C33_AmbiguousTimeout ==
  /\ [](\A p \in Procs :
          (IsProcess(p) /\ Ended(p) /\ LostReply(p)) =>
            /\ ReturnedFailure(p)
            /\ inv[p].lastProcessedAt # Null)
  /\ [][\A p \in Procs :
          (/\ pc[p] = "idle"
           /\ pc'[p] # "idle"
           /\ inv'[p].tid \in PayIds
           /\ db[inv'[p].tid].status = "FAILED") =>
            /\ pc'[p] = "done"
            /\ inv'[p].outcome = "threw"
            /\ inv'[p].message = "InvalidTransition"
            /\ inv'[p].calls = 0
            /\ userDb' = userDb]_vars

\* C33 witness: the payment is persisted as FAILED while its amount has
\* moved once and never back, the invocation that lost the reply has
\* returned its failure, and a later invocation has been rejected.
C33_Witness ==
  /\ db["PAY_1"].status = "FAILED"
  /\ moved["PAY_1"] = 1
  /\ reversed["PAY_1"] = 0
  /\ \E p \in Procs :
       /\ IsProcess(p) /\ Ended(p) /\ LostReply(p)
       /\ \E q \in Procs \ {p} :
            /\ Ended(q)
            /\ inv[q].read = "FAILED"
            /\ inv[q].outcome = "threw"

\* C35: a ProcessPayment invocation that received a successful
\* transferBalance response and persisted COMPLETED returns the success
\* response with status COMPLETED, whatever the balances returned, and
\* never ends with an error.
C35_SuccessWhateverBalances ==
  \A p \in Procs :
    (/\ IsProcess(p) /\ Ended(p)
     /\ inv[p].gotOk
     /\ inv[p].completed
     /\ inv[p].lastStatus = "COMPLETED") =>
      /\ inv[p].outcome = "returned"
      /\ inv[p].resp.status = "COMPLETED"

\* C36: a RefundPayment invocation that ended by throwing has left both
\* balances as they were (its reverse transfer was not applied); an ended
\* invocation whose reverse transfer was applied has left the payment
\* persisted as REFUNDED; and no payment's amount is moved back twice.
C36_RefundFailureAtomic ==
  /\ \A p \in Procs :
       (IsRefund(p) /\ Ended(p) /\ inv[p].outcome = "threw") => inv[p].applied = 0
  /\ \A p \in Procs :
       (IsRefund(p) /\ Ended(p) /\ inv[p].applied = 1) =>
         db[inv[p].tid].status = "REFUNDED"
  /\ \A t \in PayIds : reversed[t] <= 1

\* C37: the refund's transfer takes the payment's amount from the original
\* receiver (toUserId) and gives it to the original sender (fromUserId);
\* the response's senderNewBalance is the original sender's new balance,
\* which is the transfer's receiverNewBalance, and its receiverNewBalance is
\* the original receiver's new balance, the transfer's senderNewBalance.
C37_RefundReversesRoles ==
  /\ [](\A p \in Procs :
          (IsRefund(p) /\ Ended(p) /\ inv[p].outcome = "returned") =>
            /\ inv[p].resp.senderNewBalance =
                 toFormattedString(inv[p].receiverNewBalance)
            /\ inv[p].resp.receiverNewBalance =
                 toFormattedString(inv[p].senderNewBalance))
  /\ [][\A p \in Procs :
          (pc[p] = "rf_transfer" /\ pc'[p] = "rf_update") =>
            LET pay == inv[p].pay
            IN /\ userDb'[pay.fromUserId] = userDb[pay.fromUserId] + pay.amountCents
               /\ userDb'[pay.toUserId] = userDb[pay.toUserId] - pay.amountCents
               /\ inv'[p].receiverNewBalance = userDb'[pay.fromUserId]
               /\ inv'[p].senderNewBalance = userDb'[pay.toUserId]]_vars

\* C37 witness: a refund has returned, and the two balances it reports
\* differ.
C37_Witness ==
  \E p \in Procs :
    /\ IsRefund(p) /\ Ended(p) /\ inv[p].outcome = "returned"
    /\ inv[p].resp.status = "REFUNDED"
    /\ inv[p].resp.senderNewBalance # inv[p].resp.receiverNewBalance

\* The invocation of p died after it persisted PROCESSING, and the payment
\* is still persisted as PROCESSING.
StuckProcessing(p) ==
  /\ pc[p] = "crashed"
  /\ inv[p].writes >= 1
  /\ db[inv[p].tid].status = "PROCESSING"

\* C34: a payment left persisted as PROCESSING by an interrupted
\* ProcessPayment invocation is eventually persisted as COMPLETED or FAILED.
C34_StuckReconciled ==
  \A p \in Payers : \A t \in PayIds :
    (StuckProcessing(p) /\ inv[p].tid = t) ~>
      (db[t].status \in {"COMPLETED", "FAILED"})

\* The amounts of the payments persisted as COMPLETED, added up.
RECURSIVE CompletedSum(_, _)
CompletedSum(store, S) ==
  IF S = {} THEN 0
  ELSE LET t == CHOOSE x \in S : TRUE
       IN (IF store[t].status = "COMPLETED" THEN store[t].amountCents ELSE 0)
          + CompletedSum(store, S \ {t})

\* The invocation's transferBalance call was turned down: it threw and the
\* account service applied nothing.
TransferRejected(p) ==
  /\ inv[p].calls = 1
  /\ inv[p].applied = 0
  /\ ~inv[p].gotOk
  /\ inv[p].detail = "transferBalance"

\* C38: with ProcessPayment invocations racing on different PENDING
\* payments of one sender who cannot pay them all, no balance is negative,
\* a payment whose invocation has ended is persisted as COMPLETED or FAILED,
\* the COMPLETED amounts add up to no more than the sender's initial
\* balance, a payment whose transfer was turned down is persisted as FAILED,
\* and a transfer that is turned down changes no balance.
C38_SameSenderRace ==
  /\ [](/\ \A u \in Users : userDb[u] >= 0
        /\ \A p \in Procs :
             (IsProcess(p) /\ Ended(p) /\ inv[p].read = "PENDING") =>
               db[inv[p].tid].status \in {"COMPLETED", "FAILED"}
        /\ CompletedSum(db, DOMAIN db) <= arg.senderBalance
        /\ \A p \in Procs :
             (IsProcess(p) /\ Ended(p) /\ TransferRejected(p)) =>
               /\ db[inv[p].tid].status = "FAILED"
               /\ ReturnedFailure(p))
  /\ [][\A p \in Procs :
          (/\ pc[p] = "pp_transfer"
           /\ pc'[p] # "pp_transfer"
           /\ inv'[p].applied = inv[p].applied) => userDb' = userDb]_vars

\* C38 witness: both invocations read their payment as PENDING and found
\* the sender solvent; one payment is COMPLETED, the other's transfer was
\* turned down with the sender's balance used up, and it is FAILED.
C38_Witness ==
  \E p \in Procs : \E q \in Procs \ {p} :
    /\ IsProcess(p) /\ Ended(p) /\ IsProcess(q) /\ Ended(q)
    /\ inv[p].tid # inv[q].tid
    /\ inv[p].read = "PENDING" /\ inv[q].read = "PENDING"
    /\ db[inv[p].tid].status = "COMPLETED"
    /\ TransferRejected(q)
    /\ inv[q].sender >= inv[q].pay.amountCents
    /\ userDb["alice"] < inv[q].pay.amountCents
    /\ db[inv[q].tid].status = "FAILED"
    /\ moved[inv[q].tid] = 0

\* The status and message the filter is to answer a category with.
CategoryResponse(kind) ==
  IF kind = "userNotFound"
  THEN [status |-> 400,
        message |-> <<"One", "or", "more", "users", "involved", "in", "the",
                      "payment", "do", "not", "exist">>]
  ELSE IF kind = "paymentNotFound"
  THEN [status |-> 404, message |-> <<"Payment", "not", "found">>]
  ELSE IF kind = "illegalTransition"
  THEN [status |-> 409,
        message |-> <<"Payment", "cannot", "be", "processed", "in", "its",
                      "current", "status">>]
  ELSE IF kind = "refundNotCompleted"
  THEN [status |-> 409,
        message |-> <<"Only", "completed", "payments", "can", "be", "refunded">>]
  ELSE IF kind = "insufficientBalance"
  THEN [status |-> 402,
        message |-> <<"Insufficient", "balance", "to", "complete", "this",
                      "payment">>]
  ELSE [status |-> 503,
        message |-> <<"Payment", "service", "is", "temporarily", "unavailable",
                      ".", "Please", "try", "again", "later">>]

\* C39: the filter answers every domain error with the status of its
\* category: user not found 400 (with the users message), payment not found
\* 404, illegal transition and refund of a payment not completed 409,
\* insufficient balance 402, service communication 503; with or without the
\* "Payment creation failed: " or "Refund failed: " prefix.
C39_ErrorCategories ==
  (arg.fn = "catch" /\ ~arg.exception.isHttp /\ ret # NoRet) =>
    /\ ret.status = CategoryResponse(arg.kind).status
    /\ arg.kind = "userNotFound" => ret.message = CategoryResponse(arg.kind).message

\* The request of p was turned away by the controller.
WasForbidden(p) == inv[p].message = "Forbidden"

\* C40: a request the controller lets through is a SendPayment with the
\* user's own id as fromUserId, a ProcessPayment or RefundPayment of a
\* payment the user sent, a payment returned to its sender or receiver, or
\* the user's own history; and a request answered with Forbidden has made no
\* account lookup, transfer or update and has changed neither payments nor
\* balances.
C40_ControllerAuthorization ==
  /\ [](\A p \in Payers :
          (pc[p] # "idle" /\ ~WasForbidden(p)) =>
            /\ inv[p].op = "send" => inv[p].req.fromUserId = currentUserId
            /\ (inv[p].op \in {"process", "refund"}
                  /\ inv[p].message # "PaymentNotFound") =>
                 db[inv[p].tid].fromUserId = currentUserId
            /\ (inv[p].op = "get" /\ inv[p].outcome = "returned") =>
                 (inv[p].resp.fromUserId = currentUserId
                   \/ inv[p].resp.toUserId = currentUserId)
            /\ (inv[p].op = "history" /\ inv[p].outcome = "returned") =>
                 inv[p].resp.userId = currentUserId)
  /\ [](\A p \in Payers :
          WasForbidden(p) =>
            /\ pc[p] = "done"
            /\ inv[p].outcome = "threw"
            /\ inv[p].resp = NoResp
            /\ inv[p].lookups = 0 /\ inv[p].calls = 0 /\ inv[p].writes = 0)
  /\ [][\A p \in Payers :
          (WasForbidden(p)' /\ ~WasForbidden(p)) =>
            (pc[p] = "idle" /\ db' = db /\ userDb' = userDb)]_vars

\* C40 witness: bob, the receiver of alice's completed payment, asked for
\* its refund and was turned away.
C40_Witness ==
  \E p \in Payers :
    /\ WasForbidden(p)
    /\ inv[p].op = "refund"
    /\ inv[p].tid = "PAY_1"
    /\ currentUserId = "bob"
    /\ db["PAY_1"].status = "COMPLETED"
    /\ moved["PAY_1"] = 1

====
